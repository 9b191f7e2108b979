-------------------------- MODULE TestSessionBasics ---------------------------
(***************************************************************************)
(* The ground of a testing session, for any program, any ids the kernel    *)
(* gives out and any sizes of the shared arrays: where the pass puts its   *)
(* calls in the code, what every variable holds, and which reservations    *)
(* are granted.                                                            *)
(***************************************************************************)
EXTENDS TestSession, SequenceLemmas

-----------------------------------------------------------------------------
(* The instrumented function is its entry and, block after block, what     *)
(* became of each instruction of the source.                               *)
Source == [op : STRING, to : STRING, known : BOOLEAN, line : Nat]
Instruction == [op : STRING \cup Library, to : STRING \cup {Nowhere}, line : Nat]

(* r is u with one more call behind it, under a condition. *)
Follows(u, c, name, r) ==
    /\ r \in Seq(Instruction)
    /\ Len(r) = Len(u) + (IF c THEN 1 ELSE 0)
    /\ \A l \in 1..Len(u) : r[l] = u[l]
    /\ c => r[Len(u) + 1].op = name

LEMMA ThenWhen ==
    ASSUME NEW u \in Seq(Instruction), NEW c \in BOOLEAN, NEW name \in Library, NEW line \in Nat
    PROVE  Follows(u, c, name, u \o When(c, name, line))
  <1> DEFINE i == [op |-> name, to |-> Nowhere, line |-> line]
             r == u \o When(c, name, line)
  <1>1. i \in Instruction /\ i.op = name
    BY DEF Instruction
  <1>2. CASE c
    <2>1. r = u \o <<i>>
      BY <1>2 DEF When
    <2>2. <<i>> \in Seq(Instruction) /\ Len(<<i>>) = 1 /\ <<i>>[1] = i
      BY <1>1
    <2> HIDE DEF i
    <2>3. /\ u \o <<i>> \in Seq(Instruction) /\ Len(u \o <<i>>) = Len(u) + 1
          /\ \A l \in 1..Len(u) : (u \o <<i>>)[l] = u[l]
          /\ (u \o <<i>>)[Len(u) + 1] = i
      BY <1>1, <2>2
    <2> QED
      BY <1>1, <1>2, <2>1, <2>3 DEF Follows
  <1>3. CASE ~c
    <2>1. r = u \o <<>>
      BY <1>3 DEF When
    <2>2. r = u
      BY <2>1
    <2> QED
      BY <1>3, <2>2 DEF Follows
  <1> QED
    BY <1>2, <1>3

(* The blocks of an instruction: where it is itself, its calls before.     *)
Own(in) == IF in.op = "stmt" THEN 0 ELSE 1

BlockOf(p, f, i, a) ==
    LET in == p.code[f][i]
        key == Len(a) - Own(in)
    IN  /\ a \in Seq(Instruction)
        /\ in.op # "stmt" => Len(a) >= 1 /\ a[Len(a)] = [op |-> in.op, to |-> in.to, line |-> in.line]
        /\ IsKeyPoint(p.code[f], i) => key >= 1 /\ a[key].op = "instr_LOC_string"
        /\ in.op = "_exit" => Len(a) >= 2 /\ a[1].op = "traceEnd"
        /\ in.op \in Matched(p, p.file[f]) => Len(a) >= 2 /\ a[1].op = "before_pthread_create"
        /\ \A l \in 1..Len(a) :
              \/ a[l].op = in.op /\ in.op # "stmt" /\ l = Len(a)
              \/ a[l].op = "instr_LOC_string" /\ IsKeyPoint(p.code[f], i) /\ l = key
              \/ a[l].op = "before_pthread_create" /\ in.op \in Matched(p, p.file[f]) /\ l = 1
              \/ a[l].op = "traceEnd" /\ in.op = "_exit" /\ l = 1

LEMMA SourceType ==
    ASSUME NEW p, IsProgram(p), NEW f \in DOMAIN p.code, NEW i \in DOMAIN p.code[f]
    PROVE  /\ p.code[f] \in Seq(Source) /\ p.code[f][i] \in Source
           /\ DOMAIN p.code[f] = 1..Len(p.code[f]) /\ Len(p.code[f]) \in Nat
           /\ p.code[f][i].op \notin Library
           /\ p.code[f][i].op \in Creations
                => f = "main" /\ p.code[f][i].to \in DOMAIN p.code \ {"main"}
  <1>1. /\ p.code[f] \in Seq(Source) /\ i \in DOMAIN p.code[f]
        /\ p.code[f][i].op \notin Library
        /\ p.code[f][i].op \in Creations => f = "main" /\ p.code[f][i].to \in DOMAIN p.code \ {"main"}
    BY Zenon DEF IsProgram, Source
  <1> DEFINE c == p.code[f]
  <1>2. c \in Seq(Source) /\ i \in DOMAIN c
    BY <1>1
  <1> HIDE DEF c
  <1>3. DOMAIN c = 1..Len(c) /\ Len(c) \in Nat /\ c[i] \in Source
    BY <1>2
  <1> QED
    BY <1>1, <1>3 DEF c

LEMMA MatchedAreCreations ==
    ASSUME NEW p, NEW file
    PROVE  Matched(p, file) \subseteq Creations
  BY DEF Matched, Creations

LEMMA AroundShape ==
    ASSUME NEW p, IsProgram(p), NEW f \in DOMAIN p.code, NEW i \in DOMAIN p.code[f]
    PROVE  BlockOf(p, f, i, Around(p, f, i))
  <1> DEFINE in == p.code[f][i]
             ends == in.op = "_exit"
             announces == in.op \in Matched(p, p.file[f])
             counts == IsKeyPoint(p.code[f], i)
             itself == IF in.op = "stmt" THEN <<>> ELSE <<[op |-> in.op, to |-> in.to, line |-> in.line]>>
             u1 == When(ends, "traceEnd", in.line)
             u2 == u1 \o When(announces, "before_pthread_create", in.line)
             u3 == u2 \o When(counts, "instr_LOC_string", in.line)
             a == u3 \o itself
             me == [op |-> in.op, to |-> in.to, line |-> in.line]
  <1>1. in \in Source /\ in.op \in STRING /\ in.to \in STRING /\ in.line \in Nat
    BY SourceType DEF Source
  <1>2. Around(p, f, i) = a
    BY DEF Around
  <1>3. counts \in BOOLEAN /\ ends \in BOOLEAN /\ announces \in BOOLEAN
    BY DEF IsKeyPoint
  <1>4. /\ ends => ~announces
        /\ ends => in.op # "stmt"
        /\ announces => in.op # "stmt"
    BY MatchedAreCreations DEF Creations, Wrappers
  <1>5. me \in Instruction
    BY <1>1 DEF Instruction
  <1>6. /\ u1 \in Seq(Instruction) /\ Len(u1) = IF ends THEN 1 ELSE 0
        /\ ends => u1[1].op = "traceEnd"
    <2>1. [op |-> "traceEnd", to |-> Nowhere, line |-> in.line] \in Instruction
      BY <1>1 DEF Instruction, Library
    <2>2. CASE ends
      BY <2>1, <2>2 DEF When
    <2>3. CASE ~ends
      BY <2>3 DEF When
    <2> QED
      BY <2>2, <2>3
  <1> HIDE DEF ends, announces, counts, u1
  <1>7. /\ u2 \in Seq(Instruction) /\ Len(u2) = Len(u1) + (IF announces THEN 1 ELSE 0)
        /\ \A l \in 1..Len(u1) : u2[l] = u1[l]
        /\ announces => u2[Len(u1) + 1].op = "before_pthread_create"
    <2>1. "before_pthread_create" \in Library
      BY DEF Library
    <2> QED
      <3>1. Follows(u1, announces, "before_pthread_create", u2)
        BY <1>1, <1>3, <1>6, <2>1, ThenWhen, Zenon
      <3> QED
        BY <3>1 DEF Follows
  <1> HIDE DEF u2
  <1>8. /\ u3 \in Seq(Instruction) /\ Len(u3) = Len(u2) + (IF counts THEN 1 ELSE 0)
        /\ \A l \in 1..Len(u2) : u3[l] = u2[l]
        /\ counts => u3[Len(u2) + 1].op = "instr_LOC_string"
    <2>1. "instr_LOC_string" \in Library
      BY DEF Library
    <2> QED
      <3>1. Follows(u2, counts, "instr_LOC_string", u3)
        BY <1>1, <1>3, <1>7, <2>1, ThenWhen, Zenon
      <3> QED
        BY <3>1 DEF Follows
  <1> HIDE DEF u3
  <1>9. /\ a \in Seq(Instruction) /\ Len(a) = Len(u3) + Own(in)
        /\ \A l \in 1..Len(u3) : a[l] = u3[l]
        /\ in.op # "stmt" => a[Len(u3) + 1] = me
    <2>1. CASE in.op = "stmt"
      <3>1. a = u3 \o <<>>
        BY <2>1
      <3>2. a = u3
        BY <1>8, <3>1
      <3> HIDE DEF a, in
      <3> QED
        BY <1>8, <2>1, <3>2 DEF Own
    <2>2. CASE in.op # "stmt"
      <3>1. a = u3 \o <<me>>
        BY <2>2
      <3>2. <<me>> \in Seq(Instruction) /\ Len(<<me>>) = 1 /\ <<me>>[1] = me
        BY <1>5
      <3> HIDE DEF a, me
      <3>3. /\ u3 \o <<me>> \in Seq(Instruction) /\ Len(u3 \o <<me>>) = Len(u3) + 1
            /\ \A l \in 1..Len(u3) : (u3 \o <<me>>)[l] = u3[l]
            /\ (u3 \o <<me>>)[Len(u3) + 1] = me
        BY <1>8, <3>2
      <3> QED
        BY <2>2, <3>1, <3>3 DEF Own
    <2> QED
      BY <2>1, <2>2
  <1> HIDE DEF a
  <1>10. me.op = in.op
    OBVIOUS
  <1>11. Own(in) \in {0, 1} /\ (in.op # "stmt" <=> Own(in) = 1)
    BY DEF Own
  <1> DEFINE key == Len(a) - Own(in)
  <1>12. Len(u1) \in {0, 1} /\ Len(u2) \in 0..1 /\ Len(u3) \in 0..2 /\ Len(a) \in 0..3 /\ key = Len(u3)
    BY <1>4, <1>6, <1>7, <1>8, <1>9, <1>11
  <1>13. in.op # "stmt" => Len(a) >= 1 /\ a[Len(a)] = me
    BY <1>9, <1>11, <1>12
  <1>14. counts => key >= 1 /\ a[key].op = "instr_LOC_string"
    BY <1>8, <1>9, <1>12
  <1>15. ends => Len(a) >= 2 /\ a[1].op = "traceEnd"
    <2> HAVE ends
    <2>1. Len(u1) = 1 /\ u1[1].op = "traceEnd" /\ Own(in) = 1
      BY <1>4, <1>6, <1>11
    <2>2. Len(u2) = 1 /\ u2[1] = u1[1]
      BY <1>4, <1>7, <2>1
    <2>3. Len(u3) >= 1 /\ u3[1] = u2[1]
      BY <1>8, <2>2
    <2> QED
      BY <1>9, <1>12, <2>1, <2>2, <2>3
  <1>16. announces => Len(a) >= 2 /\ a[1].op = "before_pthread_create"
    BY <1>4, <1>6, <1>7, <1>8, <1>9, <1>11, <1>12
  <1>17. ASSUME NEW l \in 1..Len(a)
         PROVE  \/ a[l].op = in.op /\ in.op # "stmt" /\ l = Len(a)
                \/ a[l].op = "instr_LOC_string" /\ counts /\ l = key
                \/ a[l].op = "before_pthread_create" /\ announces /\ l = 1
                \/ a[l].op = "traceEnd" /\ ends /\ l = 1
    <2>1. l \in Nat /\ l >= 1 /\ l <= Len(a) /\ Len(a) = Len(u3) + Own(in)
      BY <1>9, <1>12
    <2>2. CASE l = Len(u3) + 1
      BY <1>9, <1>10, <1>11, <1>12, <2>1, <2>2
    <2>3. CASE l = Len(u2) + 1 /\ l <= Len(u3)
      BY <1>8, <1>9, <1>12, <2>1, <2>3
    <2>4. CASE l <= Len(u2)
      <3>1. l = 1 /\ a[l] = u2[l] /\ Len(u2) = 1
        BY <1>8, <1>9, <1>12, <2>1, <2>4
      <3>2. CASE ends
        BY <1>4, <1>6, <1>7, <3>1, <3>2
      <3>3. CASE ~ends
        <4>1. Len(u1) = 0
          BY <1>6, <3>3
        <4>2. announces
          <5>1. Len(u2) = Len(u1) + (IF announces THEN 1 ELSE 0)
            BY <1>7
          <5> HIDE DEF announces, u1, u2
          <5> QED
            BY <3>1, <4>1, <5>1
        <4> QED
          BY <1>7, <3>1, <4>1, <4>2
      <3> QED
        BY <3>2, <3>3
    <2> QED
      BY <1>8, <1>11, <1>12, <2>1, <2>2, <2>3, <2>4
  <1> HIDE DEF me
  <1>18. me = [op |-> in.op, to |-> in.to, line |-> in.line]
    BY DEF me
  <1> HIDE DEF in
  <1> QED
    BY <1>2, <1>9, <1>13, <1>14, <1>15, <1>16, <1>17, <1>18 DEF BlockOf, ends, announces, counts, in

-----------------------------------------------------------------------------
(* The i-th block of f lies behind off[i - 1], up to off[i]. *)
Layout(p, f, off) ==
    LET n == Len(p.code[f])
        c == Instrument(p)[f]
    IN  /\ off \in [0..n -> Nat] /\ off[0] = Len(Entry(p, f))
        /\ c \in Seq(Instruction) /\ Len(c) = off[n]
        /\ \A j \in 1..off[0] : c[j] = Entry(p, f)[j]
        /\ \A i \in 1..n : off[i] = off[i - 1] + Len(Around(p, f, i))
        /\ \A i \in 1..n : \A l \in 1..Len(Around(p, f, i)) : c[off[i - 1] + l] = Around(p, f, i)[l]
        /\ \A j \in (off[0] + 1)..off[n] :
              \E i \in 1..n : \E l \in 1..Len(Around(p, f, i)) : j = off[i - 1] + l

LEMMA EntryShape ==
    ASSUME NEW p, NEW f
    PROVE  /\ Entry(p, f) \in Seq(Instruction)
           /\ f = "main" => Len(Entry(p, f)) = 1 /\ Entry(p, f)[1].op = "instr_LOC"
           /\ f # "main" /\ f \in PthreadCallFunction(p, p.file[f])
                => Len(Entry(p, f)) = 1 /\ Entry(p, f)[1].op = "instr_PthreadCall"
           /\ f # "main" /\ f \notin PthreadCallFunction(p, p.file[f]) => Len(Entry(p, f)) = 0
  <1> DEFINE loc == [op |-> "instr_LOC", to |-> Nowhere, line |-> NoLine]
             call == [op |-> "instr_PthreadCall", to |-> Nowhere, line |-> NoLine]
  <1>1. loc \in Instruction /\ call \in Instruction /\ loc.op = "instr_LOC" /\ call.op = "instr_PthreadCall"
    BY DEF Instruction, Library, NoLine
  <1>2. CASE f = "main"
    <2>1. Entry(p, f) = <<loc>> \o <<>>
      BY <1>2 DEF Entry, When
    <2> HIDE DEF loc
    <2>2. <<loc>> \in Seq(Instruction) /\ Len(<<loc>>) = 1 /\ <<loc>>[1] = loc
      BY <1>1
    <2>3. <<loc>> \o <<>> = <<loc>>
      BY <2>2
    <2> QED
      BY <1>1, <1>2, <2>1, <2>2, <2>3
  <1>3. CASE f # "main" /\ f \in PthreadCallFunction(p, p.file[f])
    <2>1. Entry(p, f) = <<>> \o <<call>>
      BY <1>3 DEF Entry, When
    <2> HIDE DEF call
    <2> QED
      BY <1>1, <1>3, <2>1
  <1>4. CASE f # "main" /\ f \notin PthreadCallFunction(p, p.file[f])
    <2>1. Entry(p, f) = <<>> \o <<>>
      BY <1>4 DEF Entry, When
    <2> QED
      BY <1>4, <2>1
  <1> QED
    BY <1>2, <1>3, <1>4

LEMMA LayoutExists ==
    ASSUME NEW p, IsProgram(p), NEW f \in DOMAIN p.code
    PROVE  \E off : Layout(p, f, off)
  <1> DEFINE n == Len(p.code[f])
             entry == Entry(p, f)
             blocks == [i \in 1..n |-> Around(p, f, i)]
             all == FlattenSeq(blocks)
             c == Instrument(p)[f]
  <1>1. p.code[f] \in Seq(Source) /\ n \in Nat /\ DOMAIN p.code[f] = 1..n
    <2>1. p.code[f] \in Seq(Source)
      BY DEF IsProgram, Source
    <2> DEFINE s == p.code[f]
    <2> HIDE DEF s
    <2>2. s \in Seq(Source) => Len(s) \in Nat /\ DOMAIN s = 1..Len(s)
      OBVIOUS
    <2> QED
      BY <2>1, <2>2 DEF s
  <1>2. blocks \in [1..n -> Seq(Instruction)]
    <2>1. \A i \in 1..n : Around(p, f, i) \in Seq(Instruction)
      BY <1>1, AroundShape, Zenon DEF BlockOf
    <2> QED
      BY <2>1
  <1>3. c = entry \o all
    <2>1. Instrument(p)[f] = Entry(p, f) \o FlattenSeq([i \in DOMAIN p.code[f] |-> Around(p, f, i)])
      BY Zenon DEF Instrument
    <2> QED
      BY <1>1, <2>1
  <1>4. entry \in Seq(Instruction) /\ Len(entry) \in Nat
    BY EntryShape
  <1>5. \A i \in 1..n : blocks[i] = Around(p, f, i)
    OBVIOUS
  <1> HIDE DEF blocks, entry, n, c
  <1>6. PICK off : /\ Places(blocks, n, off, all)
                   /\ all \in Seq(Instruction) /\ Len(all) = off[n]
    BY <1>1, <1>2, FlattenPlaces
  <1> HIDE DEF all
  <1>p. /\ off \in [0..n -> Nat] /\ off[0] = 0 /\ n \in Nat
        /\ \A i \in 1..n : off[i] = off[i - 1] + Len(blocks[i])
        /\ \A i \in 1..n : \A l \in 1..Len(blocks[i]) : all[off[i - 1] + l] = blocks[i][l]
        /\ \A j \in 1..off[n] : \E i \in 1..n : \E l \in 1..Len(blocks[i]) : j = off[i - 1] + l
    BY <1>1, <1>6 DEF Places
  <1> DEFINE e == Len(entry)
             at == [i \in 0..n |-> e + off[i]]
  <1>7. /\ c \in Seq(Instruction) /\ Len(c) = e + off[n]
        /\ \A j \in 1..e : c[j] = entry[j]
        /\ \A j \in 1..off[n] : c[e + j] = all[j]
    <2>1. /\ entry \o all \in Seq(Instruction) /\ Len(entry \o all) = Len(entry) + Len(all)
          /\ \A j \in 1..(Len(entry) + Len(all)) :
                (entry \o all)[j] = IF j <= Len(entry) THEN entry[j] ELSE all[j - Len(entry)]
      BY ONLY <1>4, <1>6, ConcatProperties
    <2>2. n \in 0..n /\ off[n] \in Nat /\ e \in Nat
      BY <1>4, <1>p
    <2>3. ASSUME NEW j \in 1..off[n] PROVE c[e + j] = all[j]
      <3>1. e + j \in 1..(e + off[n]) /\ ~(e + j <= e) /\ (e + j) - e = j
        BY <2>2
      <3> QED
        BY <1>3, <1>6, <2>1, <3>1
    <2>4. ASSUME NEW j \in 1..e PROVE c[j] = entry[j]
      <3>1. j \in 1..(e + off[n]) /\ j <= e
        BY <2>2
      <3> QED
        BY <1>3, <1>6, <2>1, <3>1
    <2> QED
      BY <1>3, <1>6, <2>1, <2>2, <2>3, <2>4
  <1>8. e \in Nat /\ n \in 0..n /\ 0 \in 0..n
    BY <1>1, <1>4
  <1>9. /\ at \in [0..n -> Nat] /\ at[0] = e /\ at[n] = e + off[n]
        /\ \A i \in 0..n : at[i] = e + off[i]
    BY <1>8, <1>p
  <1> HIDE DEF at, e
  <1>10. ASSUME NEW i \in 1..n
         PROVE  /\ at[i] = at[i - 1] + Len(blocks[i])
                /\ \A l \in 1..Len(blocks[i]) : c[at[i - 1] + l] = blocks[i][l]
    <2>1. i \in 0..n /\ i - 1 \in 0..n /\ off[i] \in Nat /\ off[i - 1] \in Nat /\ n \in 0..n
      BY <1>p
    <2>2. blocks[i] \in Seq(Instruction) /\ Len(blocks[i]) \in Nat
      BY <1>2
    <2>3. off[i] = off[i - 1] + Len(blocks[i]) /\ off[i] <= off[n]
      <3>1. \A k \in 1..n : off[k - 1] <= off[k]
        <4> TAKE k \in 1..n
        <4>1. blocks[k] \in Seq(Instruction) /\ Len(blocks[k]) \in Nat /\ k - 1 \in 0..n
          BY <1>2, <1>p
        <4> QED
          BY <1>p, <4>1
      <3>2. i <= n /\ n \in Nat
        BY <1>p
      <3>3. off[i] <= off[n]
        BY <1>p, <2>1, <3>1, <3>2, NeverFalls
      <3> QED
        BY <1>p, <3>3
    <2>4. ASSUME NEW l \in 1..Len(blocks[i]) PROVE c[at[i - 1] + l] = blocks[i][l]
      <3>0. l \in Int /\ 1 <= l /\ l <= Len(blocks[i]) /\ off[n] \in Nat
        BY <1>p, <2>1, <2>2
      <3>1. off[i - 1] + l \in 1..off[n]
        BY <2>1, <2>2, <2>3, <3>0
      <3>3. at[i - 1] = e + off[i - 1] /\ at[i - 1] + l = e + (off[i - 1] + l)
        BY <1>8, <1>9, <2>1, <3>0
      <3>2. all[off[i - 1] + l] = blocks[i][l]
        BY <1>p
      <3> QED
        BY <1>7, <3>1, <3>2, <3>3
    <2>5. at[i] = e + off[i] /\ at[i - 1] = e + off[i - 1]
      BY <1>9, <2>1
    <2>6. at[i] = at[i - 1] + Len(blocks[i])
      BY <1>8, <2>1, <2>2, <2>3, <2>5
    <2> QED
      BY <2>4, <2>6
  <1>11. ASSUME NEW j \in (at[0] + 1)..at[n]
         PROVE  \E i \in 1..n : \E l \in 1..Len(blocks[i]) : j = at[i - 1] + l
    <2>1. j - e \in 1..off[n]
      BY <1>8, <1>9, <1>p
    <2>2. PICK i \in 1..n : \E l \in 1..Len(blocks[i]) : j - e = off[i - 1] + l
      BY <1>p, <2>1
    <2>3. PICK l \in 1..Len(blocks[i]) : j - e = off[i - 1] + l
      BY <2>2
    <2>4. i - 1 \in 0..n /\ l \in Int
      BY <1>p
    <2>5. at[i - 1] = e + off[i - 1] /\ off[i - 1] \in Nat
      BY <1>9, <1>p, <2>4
    <2>6. j = at[i - 1] + l
      BY <1>8, <2>3, <2>4, <2>5
    <2> QED
      BY <2>6
  <1>12. Layout(p, f, at)
    <2>1. /\ at \in [0..Len(p.code[f]) -> Nat] /\ at[0] = Len(Entry(p, f))
          /\ Instrument(p)[f] \in Seq(Instruction)
          /\ Len(Instrument(p)[f]) = at[Len(p.code[f])]
      BY <1>7, <1>9 DEF n, c, e, entry
    <2>2. \A j \in 1..at[0] : Instrument(p)[f][j] = Entry(p, f)[j]
      BY <1>7, <1>9 DEF c, e, entry
    <2>3. \A i \in 1..Len(p.code[f]) : at[i] = at[i - 1] + Len(Around(p, f, i))
      BY <1>5, <1>10 DEF n
    <2>4. \A i \in 1..Len(p.code[f]) : \A l \in 1..Len(Around(p, f, i)) :
             Instrument(p)[f][at[i - 1] + l] = Around(p, f, i)[l]
      BY <1>5, <1>10 DEF n, c
    <2>5. \A j \in (at[0] + 1)..at[Len(p.code[f])] :
             \E i \in 1..Len(p.code[f]) : \E l \in 1..Len(Around(p, f, i)) : j = at[i - 1] + l
      BY <1>5, <1>11 DEF n
    <2> QED
      BY <2>1, <2>2, <2>3, <2>4, <2>5 DEF Layout
  <1> QED
    BY <1>12

-----------------------------------------------------------------------------
(* What is where in the code of f, in terms of the source.  Key: the call  *)
(* for a KP stands right before the instruction.                           *)
Key(p, f, off, i) == off[i] - Own(p.code[f][i])

CodeAt(p, f, off, i, y) ==
    LET in == p.code[f][i]
        c == Instrument(p)[f]
    IN  \/ c[y].op = in.op /\ in.op # "stmt" /\ y = off[i]
        \/ c[y].op = "instr_LOC_string" /\ IsKeyPoint(p.code[f], i) /\ y = Key(p, f, off, i)
        \/ c[y].op = "before_pthread_create" /\ in.op \in Matched(p, p.file[f]) /\ y = off[i - 1] + 1
        \/ c[y].op = "traceEnd" /\ in.op = "_exit" /\ y = off[i - 1] + 1

BlockAt(p, f, off, i) ==
    LET in == p.code[f][i]
        c == Instrument(p)[f]
    IN  /\ in.op # "stmt" => off[i - 1] < off[i]
                             /\ c[off[i]] = [op |-> in.op, to |-> in.to, line |-> in.line]
        /\ IsKeyPoint(p.code[f], i) => /\ off[i - 1] < Key(p, f, off, i) /\ Key(p, f, off, i) <= off[i]
                                       /\ c[Key(p, f, off, i)].op = "instr_LOC_string"
        /\ in.op = "_exit" => off[i - 1] + 1 < off[i] /\ c[off[i - 1] + 1].op = "traceEnd"
        /\ in.op \in Matched(p, p.file[f])
             => off[i - 1] + 1 < off[i] /\ c[off[i - 1] + 1].op = "before_pthread_create"

CodeShape(p, f, off) ==
    LET n == Len(p.code[f])
        c == Instrument(p)[f]
    IN  /\ off \in [0..n -> Nat] /\ n \in Nat /\ DOMAIN p.code[f] = 1..n
        /\ c \in Seq(Instruction) /\ DOMAIN c = 1..off[n] /\ Len(c) = off[n]
        /\ \A i, k \in 0..n : i <= k => off[i] <= off[k]
        /\ off[0] \in 0..1
        /\ f = "main" => off[0] = 1 /\ c[1].op = "instr_LOC"
        /\ f # "main" /\ off[0] = 1 => c[1].op = "instr_PthreadCall"
        /\ f # "main" /\ f \in PthreadCallFunction(p, p.file[f]) => off[0] = 1
        /\ \A i \in 1..n : BlockAt(p, f, off, i)
        /\ \A y \in (off[0] + 1)..off[n] :
              \E i \in 1..n : off[i - 1] < y /\ y <= off[i] /\ CodeAt(p, f, off, i, y)

LEMMA CodeIs ==
    ASSUME NEW p, IsProgram(p), NEW f \in DOMAIN p.code
    PROVE  \E off : CodeShape(p, f, off)
  <1> DEFINE n == Len(p.code[f])
             c == Instrument(p)[f]
  <1>1. PICK off : Layout(p, f, off)
    BY LayoutExists
  <1>2. n \in Nat /\ DOMAIN p.code[f] = 1..n
    <2>1. p.code[f] \in Seq(Source)
      BY DEF IsProgram, Source
    <2> DEFINE s == p.code[f]
    <2> HIDE DEF s
    <2>2. s \in Seq(Source) => Len(s) \in Nat /\ DOMAIN s = 1..Len(s)
      OBVIOUS
    <2> QED
      BY <2>1, <2>2 DEF s
  <1>3. \A i \in 1..n : BlockOf(p, f, i, Around(p, f, i))
    BY <1>2, AroundShape, Zenon
  <1>4. /\ off \in [0..n -> Nat] /\ off[0] = Len(Entry(p, f))
        /\ c \in Seq(Instruction) /\ Len(c) = off[n]
        /\ \A j \in 1..off[0] : c[j] = Entry(p, f)[j]
        /\ \A i \in 1..n : off[i] = off[i - 1] + Len(Around(p, f, i))
        /\ \A i \in 1..n : \A l \in 1..Len(Around(p, f, i)) : c[off[i - 1] + l] = Around(p, f, i)[l]
        /\ \A j \in (off[0] + 1)..off[n] :
              \E i \in 1..n : \E l \in 1..Len(Around(p, f, i)) : j = off[i - 1] + l
    BY <1>1, Zenon DEF Layout
  <1> HIDE DEF n, c
  <1>5. DOMAIN c = 1..off[n] /\ n \in 0..n /\ 0 \in 0..n
    BY <1>2, <1>4
  <1>6. \A i, k \in 0..n : i <= k => off[i] <= off[k]
    <2>1. \A i \in 1..n : off[i - 1] <= off[i]
      <3> TAKE i \in 1..n
      <3>1. Around(p, f, i) \in Seq(Instruction)
        BY <1>3 DEF BlockOf
      <3>2. Len(Around(p, f, i)) \in Nat
        BY <3>1
      <3>3. off[i] = off[i - 1] + Len(Around(p, f, i)) /\ i - 1 \in 0..n
        BY <1>2, <1>4
      <3> QED
        BY <1>4, <3>2, <3>3
    <2> QED
      BY <1>2, <1>4, <2>1, NeverFalls
  <1>7. /\ off[0] \in 0..1
        /\ f = "main" => off[0] = 1 /\ c[1].op = "instr_LOC"
        /\ f # "main" /\ off[0] = 1 => c[1].op = "instr_PthreadCall"
        /\ f # "main" /\ f \in PthreadCallFunction(p, p.file[f]) => off[0] = 1
    BY <1>4, EntryShape
  <1>8. ASSUME NEW i \in 1..n
        PROVE  /\ BlockAt(p, f, off, i)
               /\ \A l \in 1..Len(Around(p, f, i)) :
                     LET y == off[i - 1] + l
                     IN  off[i - 1] < y /\ y <= off[i] /\ CodeAt(p, f, off, i, y)
    <2> DEFINE a == Around(p, f, i)
               in == p.code[f][i]
    <2>1. BlockOf(p, f, i, a)
      BY <1>3
    <2>2. off[i] = off[i - 1] + Len(a) /\ \A l \in 1..Len(a) : c[off[i - 1] + l] = a[l]
      BY <1>4
    <2> HIDE DEF a
    <2>3. Len(a) \in Nat /\ off[i] \in Nat /\ off[i - 1] \in Nat /\ Own(in) \in {0, 1}
          /\ (in.op # "stmt" => Own(in) = 1)
      <3>1. a \in Seq(Instruction)
        BY <2>1 DEF BlockOf
      <3>2. i \in 0..n /\ i - 1 \in 0..n
        BY <1>2
      <3> QED
        BY <1>4, <3>1, <3>2 DEF Own
    <2> DEFINE key == Len(a) - Own(in)
    <2>4. Key(p, f, off, i) = off[i - 1] + key
      BY <2>2, <2>3 DEF Key
    <2>5. ASSUME in.op # "stmt"
          PROVE  off[i - 1] < off[i] /\ c[off[i]] = [op |-> in.op, to |-> in.to, line |-> in.line]
      <3>1. Len(a) >= 1 /\ a[Len(a)] = [op |-> in.op, to |-> in.to, line |-> in.line]
        BY <2>1, <2>5 DEF BlockOf
      <3>2. Len(a) \in 1..Len(a)
        BY <2>3, <3>1
      <3> QED
        BY <2>2, <2>3, <3>1, <3>2
    <2>6. ASSUME IsKeyPoint(p.code[f], i)
          PROVE  /\ off[i - 1] < Key(p, f, off, i) /\ Key(p, f, off, i) <= off[i]
                 /\ c[Key(p, f, off, i)].op = "instr_LOC_string"
      <3>1. key >= 1 /\ a[key].op = "instr_LOC_string"
        BY <2>1, <2>6 DEF BlockOf
      <3>2. key \in 1..Len(a)
        BY <2>3, <3>1
      <3>3. c[off[i - 1] + key] = a[key]
        BY <2>2, <3>2
      <3> QED
        BY <2>2, <2>3, <2>4, <3>1, <3>2, <3>3
    <2>7. ASSUME in.op = "_exit"
          PROVE  off[i - 1] + 1 < off[i] /\ c[off[i - 1] + 1].op = "traceEnd"
      <3>1. Len(a) >= 2 /\ a[1].op = "traceEnd"
        BY <2>1, <2>7 DEF BlockOf
      <3>2. 1 \in 1..Len(a)
        BY <2>3, <3>1
      <3> QED
        BY <2>2, <2>3, <3>1, <3>2
    <2>8. ASSUME in.op \in Matched(p, p.file[f])
          PROVE  off[i - 1] + 1 < off[i] /\ c[off[i - 1] + 1].op = "before_pthread_create"
      <3>1. Len(a) >= 2 /\ a[1].op = "before_pthread_create"
        BY <2>1, <2>8 DEF BlockOf
      <3>2. 1 \in 1..Len(a)
        BY <2>3, <3>1
      <3> QED
        BY <2>2, <2>3, <3>1, <3>2
    <2>9. BlockAt(p, f, off, i)
      BY <2>5, <2>6, <2>7, <2>8 DEF BlockAt, c
    <2>10. ASSUME NEW l \in 1..Len(a)
           PROVE  LET y == off[i - 1] + l
                  IN  off[i - 1] < y /\ y <= off[i] /\ CodeAt(p, f, off, i, y)
      <3> DEFINE y == off[i - 1] + l
      <3>1. l \in Nat /\ l >= 1 /\ l <= Len(a)
        BY <2>3
      <3>2. off[i - 1] < y /\ y <= off[i] /\ c[y] = a[l]
        BY <2>2, <2>3, <3>1
      <3>3. \/ a[l].op = in.op /\ in.op # "stmt" /\ l = Len(a)
            \/ a[l].op = "instr_LOC_string" /\ IsKeyPoint(p.code[f], i) /\ l = key
            \/ a[l].op = "before_pthread_create" /\ in.op \in Matched(p, p.file[f]) /\ l = 1
            \/ a[l].op = "traceEnd" /\ in.op = "_exit" /\ l = 1
        BY <2>1, Zenon DEF BlockOf
      <3>4. /\ l = Len(a) => y = off[i]
            /\ l = key => y = Key(p, f, off, i)
            /\ l = 1 => y = off[i - 1] + 1
        BY <2>2, <2>4
      <3> HIDE DEF y, key
      <3>5. CodeAt(p, f, off, i, y)
        BY <3>2, <3>3, <3>4 DEF CodeAt, c
      <3> QED
        BY <3>2, <3>5 DEF y
    <2> QED
      BY <2>9, <2>10 DEF a
  <1>9. ASSUME NEW y \in (off[0] + 1)..off[n]
        PROVE  \E i \in 1..n : off[i - 1] < y /\ y <= off[i] /\ CodeAt(p, f, off, i, y)
    <2>1. PICK i \in 1..n : \E l \in 1..Len(Around(p, f, i)) : y = off[i - 1] + l
      BY <1>4
    <2>2. PICK l \in 1..Len(Around(p, f, i)) : y = off[i - 1] + l
      BY <2>1
    <2> QED
      BY <1>8, <2>2
  <1>10. \A i \in 1..n : BlockAt(p, f, off, i)
    BY <1>8
  <1>11. CodeShape(p, f, off)
    BY <1>2, <1>4, <1>5, <1>6, <1>7, <1>9, <1>10 DEF CodeShape, n, c
  <1> QED
    BY <1>11

-----------------------------------------------------------------------------
(* Calls with certain names, in the code and in the source of a function.  *)
CallsAt(p, f, ops) == {y \in DOMAIN Instrument(p)[f] : Instrument(p)[f][y].op \in ops}
SourceAt(p, f, ops) == {i \in DOMAIN p.code[f] : p.code[f][i].op \in ops}
KeyPointsAt(p, f) == {i \in DOMAIN p.code[f] : IsKeyPoint(p.code[f], i)}

(* What belongs to a later block comes later. *)
LEMMA BlockOrder ==
    ASSUME NEW p, NEW f, NEW off, CodeShape(p, f, off),
           NEW i \in 1..Len(p.code[f]), NEW k \in 1..Len(p.code[f]), NEW y \in Nat, NEW z \in Nat,
           off[i - 1] < y, y <= off[i], off[k - 1] < z, z <= off[k]
    PROVE  /\ i < k => y < z
           /\ y < z => i <= k
  <1> DEFINE n == Len(p.code[f])
  <1>1. /\ n \in Nat /\ off \in [0..n -> Nat]
        /\ \A x, w \in 0..n : x <= w => off[x] <= off[w]
    BY Zenon DEF CodeShape
  <1> HIDE DEF n
  <1>2. i \in 1..n /\ k \in 1..n
    BY DEF n
  <1>3. /\ i \in 0..n /\ k \in 0..n /\ i - 1 \in 0..n /\ k - 1 \in 0..n
        /\ off[i] \in Nat /\ off[k] \in Nat /\ off[i - 1] \in Nat /\ off[k - 1] \in Nat
        /\ i \in Nat /\ k \in Nat
    BY <1>1, <1>2
  <1>4. i < k => off[i] <= off[k - 1]
    <2>1. i < k => i <= k - 1
      BY <1>3
    <2> QED
      BY <1>1, <1>3, <2>1
  <1>5. k < i => off[k] <= off[i - 1]
    <2>1. k < i => k <= i - 1
      BY <1>3
    <2> QED
      BY <1>1, <1>3, <2>1
  <1> QED
    BY <1>3, <1>4, <1>5

(* Calls of others than the library are where the source has them.         *)
Foreign(ops) == "stmt" \notin ops /\ ops \cap Library = {}

LEMMA OwnPlaces ==
    ASSUME NEW p, IsProgram(p), NEW f \in DOMAIN p.code, NEW off, CodeShape(p, f, off),
           NEW ops, Foreign(ops)
    PROVE  /\ SourceAt(p, f, ops) \in SUBSET (1..Len(p.code[f]))
           /\ CallsAt(p, f, ops) \in SUBSET (1..Len(Instrument(p)[f]))
           /\ \A i \in SourceAt(p, f, ops) :
                 /\ off[i] \in CallsAt(p, f, ops) /\ off[i - 1] < off[i]
                 /\ Instrument(p)[f][off[i]].op = p.code[f][i].op
                 /\ Instrument(p)[f][off[i]].to = p.code[f][i].to
           /\ \A y \in CallsAt(p, f, ops) : \E i \in SourceAt(p, f, ops) : y = off[i]
  <1> DEFINE n == Len(p.code[f])
             c == Instrument(p)[f]
  <1>1. /\ n \in Nat /\ off \in [0..n -> Nat] /\ DOMAIN p.code[f] = 1..n
        /\ DOMAIN c = 1..off[n] /\ Len(c) = off[n]
        /\ \A x, w \in 0..n : x <= w => off[x] <= off[w]
        /\ off[0] \in 0..1
        /\ f = "main" => off[0] = 1 /\ c[1].op = "instr_LOC"
        /\ f # "main" /\ off[0] = 1 => c[1].op = "instr_PthreadCall"
        /\ \A i \in 1..n : BlockAt(p, f, off, i)
        /\ \A y \in (off[0] + 1)..off[n] :
              \E i \in 1..n : off[i - 1] < y /\ y <= off[i] /\ CodeAt(p, f, off, i, y)
    BY Zenon DEF CodeShape
  <1>2. ASSUME NEW i \in SourceAt(p, f, ops)
        PROVE  /\ off[i] \in CallsAt(p, f, ops) /\ off[i - 1] < off[i]
               /\ Instrument(p)[f][off[i]].op = p.code[f][i].op
               /\ Instrument(p)[f][off[i]].to = p.code[f][i].to
    <2>1. i \in 1..n /\ p.code[f][i].op \in ops /\ p.code[f][i].op # "stmt"
      BY <1>1 DEF SourceAt, Foreign
    <2> DEFINE in == p.code[f][i]
    <2>2. off[i - 1] < off[i] /\ c[off[i]] = [op |-> in.op, to |-> in.to, line |-> in.line]
      BY <1>1, <2>1 DEF BlockAt
    <2> HIDE DEF n
    <2>3. off[i] \in 1..off[n]
      <3>1. i \in 0..n /\ i - 1 \in 0..n /\ n \in 0..n /\ i <= n
        BY <1>1, <2>1
      <3>2. off[i] \in Nat /\ off[i - 1] \in Nat /\ off[n] \in Nat /\ off[i] <= off[n]
        BY <1>1, <3>1
      <3> QED
        BY <2>2, <3>2
    <2> HIDE DEF c, in
    <2>4. c[off[i]].op = in.op /\ c[off[i]].to = in.to
      BY <2>2
    <2> QED
      BY <1>1, <2>1, <2>2, <2>3, <2>4 DEF CallsAt, c, in
  <1>3. ASSUME NEW y \in CallsAt(p, f, ops)
        PROVE  \E i \in SourceAt(p, f, ops) : y = off[i]
    <2>1. y \in 1..off[n] /\ c[y].op \in ops /\ c[y].op \notin Library
      BY <1>1 DEF CallsAt, Foreign
    <2>2. y \in (off[0] + 1)..off[n]
      <3>1. off[0] = 1 => c[1].op \in Library
        BY <1>1 DEF Library
      <3> HIDE DEF n, c
      <3>2. y # 1 \/ off[0] # 1
        BY <2>1, <3>1
      <3> QED
        BY <1>1, <2>1, <3>2
    <2>3. PICK i \in 1..n : off[i - 1] < y /\ y <= off[i] /\ CodeAt(p, f, off, i, y)
      BY <1>1, <2>2, Zenon
    <2>4. c[y].op = p.code[f][i].op /\ y = off[i]
      BY <2>1, <2>3 DEF CodeAt, Library
    <2> QED
      BY <1>1, <2>1, <2>4 DEF SourceAt
  <1>4. /\ SourceAt(p, f, ops) \in SUBSET (1..Len(p.code[f]))
        /\ CallsAt(p, f, ops) \in SUBSET (1..Len(Instrument(p)[f]))
    BY <1>1 DEF SourceAt, CallsAt
  <1> QED
    BY <1>2, <1>3, <1>4, Zenon

(* So they can be counted in the source.                                   *)
LEMMA OwnCount ==
    ASSUME NEW p, IsProgram(p), NEW f \in DOMAIN p.code, NEW off, CodeShape(p, f, off),
           NEW ops, Foreign(ops)
    PROVE  /\ \A i \in SourceAt(p, f, ops) :
                 CountBelow(CallsAt(p, f, ops), off[i]) = CountBelow(SourceAt(p, f, ops), i)
           /\ CountBelow(CallsAt(p, f, ops), Len(Instrument(p)[f]) + 1)
                 = Cardinality(SourceAt(p, f, ops))
  <1> DEFINE n == Len(p.code[f])
             S == SourceAt(p, f, ops)
             T == CallsAt(p, f, ops)
             g == [i \in S |-> off[i]]
             last == Len(Instrument(p)[f])
  <1>1. /\ S \in SUBSET (1..n) /\ T \in SUBSET (1..last)
        /\ \A i \in S : off[i] \in T /\ off[i - 1] < off[i]
        /\ \A y \in T : \E i \in S : y = off[i]
    BY OwnPlaces
  <1>2. /\ n \in Nat /\ off \in [0..n -> Nat] /\ last = off[n] /\ last \in Nat
    <2>1. n \in Nat /\ off \in [0..n -> Nat] /\ last = off[n]
      BY Zenon DEF CodeShape
    <2> HIDE DEF n
    <2>2. n \in 0..n
      BY <2>1
    <2> QED
      BY <2>1, <2>2
  <1>3. ASSUME NEW i \in S, NEW k \in S
        PROVE  i < k <=> off[i] < off[k]
    <2>1. i \in 1..n /\ k \in 1..n /\ off[i - 1] < off[i] /\ off[k - 1] < off[k]
      BY <1>1
    <2>2. off[i] \in Nat /\ off[k] \in Nat /\ off[i] <= off[i] /\ off[k] <= off[k] /\ i \in Nat /\ k \in Nat
      BY <1>2, <2>1
    <2>3. /\ i < k => off[i] < off[k]
          /\ off[i] < off[k] => i <= k
      BY <2>1, <2>2, BlockOrder
    <2> QED
      BY <2>2, <2>3
  <1> HIDE DEF n, S, T, last
  <1>4. S \in SUBSET Nat /\ T \in SUBSET Nat /\ g \in [S -> T]
    BY <1>1, <1>2
  <1>5. \A x \in S : \A y \in S : g[x] = g[y] => x = y
    BY <1>2, <1>3, <1>4
  <1>6. \A z \in T : \E x \in S : g[x] = z
    BY <1>1
  <1>7. \A i \in S : g[i] = off[i]
    OBVIOUS
  <1> HIDE DEF g
  <1>8. ASSUME NEW i \in S PROVE CountBelow(T, off[i]) = CountBelow(S, i)
    <2>1. \A x \in S : x < i <=> g[x] < off[i]
      BY <1>3, <1>7
    <2>2. i \in Nat /\ off[i] \in Nat
      BY <1>1, <1>4
    <2>3. CountBelow(S, i) = CountBelow(T, off[i])
      BY <1>4, <1>5, <1>6, <2>1, <2>2, SameCount
    <2> QED
      BY <2>3
  <1>9. CountBelow(T, last + 1) = Cardinality(S)
    <2>1. \A x \in S : x < n + 1 <=> g[x] < last + 1
      <3> TAKE x \in S
      <3>1. x \in 1..n /\ off[x] \in 1..last
        BY <1>1
      <3> QED
        BY <1>2, <1>7, <3>1
    <2>2. n + 1 \in Nat /\ last + 1 \in Nat
      BY <1>2
    <2>3. CountBelow(S, n + 1) = CountBelow(T, last + 1)
      BY <1>4, <1>5, <1>6, <2>1, <2>2, SameCount
    <2>4. \A x \in S : x < n + 1
      BY <1>1, <1>2
    <2>5. CountBelow(S, n + 1) = Cardinality(S)
      BY <1>4, <2>2, <2>4, BelowAll
    <2> QED
      BY <2>3, <2>5
  <1> QED
    BY <1>8, <1>9 DEF S, T, last

(* A function has one call of instr_LOC_string for each of its KPs (the    *)
(* pass, 528-573).                                                         *)
THEOREM KeyCount ==
    ASSUME NEW p, IsProgram(p), NEW f \in DOMAIN p.code
    PROVE  CountBelow(CallsAt(p, f, {"instr_LOC_string"}), Len(Instrument(p)[f]) + 1)
              = Cardinality(KeyPointsAt(p, f))
  <1>0. PICK off : CodeShape(p, f, off)
    BY CodeIs
  <1> DEFINE n == Len(p.code[f])
             c == Instrument(p)[f]
             S == KeyPointsAt(p, f)
             T == CallsAt(p, f, {"instr_LOC_string"})
             g == [i \in S |-> Key(p, f, off, i)]
             last == Len(Instrument(p)[f])
  <1>1. /\ n \in Nat /\ off \in [0..n -> Nat] /\ DOMAIN p.code[f] = 1..n
        /\ DOMAIN c = 1..off[n] /\ Len(c) = off[n]
        /\ \A x, w \in 0..n : x <= w => off[x] <= off[w]
        /\ off[0] \in 0..1
        /\ f = "main" => off[0] = 1 /\ c[1].op = "instr_LOC"
        /\ f # "main" /\ off[0] = 1 => c[1].op = "instr_PthreadCall"
        /\ \A i \in 1..n : BlockAt(p, f, off, i)
        /\ \A y \in (off[0] + 1)..off[n] :
              \E i \in 1..n : off[i - 1] < y /\ y <= off[i] /\ CodeAt(p, f, off, i, y)
    BY <1>0, Zenon DEF CodeShape
  <1>2. ASSUME NEW i \in S
        PROVE  /\ i \in 1..n /\ Key(p, f, off, i) \in T
               /\ off[i - 1] < Key(p, f, off, i) /\ Key(p, f, off, i) <= off[i]
               /\ Key(p, f, off, i) \in 1..last
    <2>1. i \in 1..n /\ IsKeyPoint(p.code[f], i)
      BY <1>1 DEF KeyPointsAt
    <2>2. /\ off[i - 1] < Key(p, f, off, i) /\ Key(p, f, off, i) <= off[i]
          /\ c[Key(p, f, off, i)].op = "instr_LOC_string"
      BY <1>1, <2>1 DEF BlockAt
    <2> HIDE DEF n
    <2>3. Key(p, f, off, i) \in 1..off[n]
      <3>1. i \in 0..n /\ i - 1 \in 0..n /\ n \in 0..n /\ i <= n
        BY <1>1, <2>1
      <3>2. off[i] \in Nat /\ off[i - 1] \in Nat /\ off[n] \in Nat /\ off[i] <= off[n]
        BY <1>1, <3>1
      <3>3. Key(p, f, off, i) \in Int
        BY <3>2 DEF Key, Own
      <3> QED
        BY <2>2, <3>2, <3>3
    <2> QED
      BY <1>1, <2>1, <2>2, <2>3 DEF CallsAt
  <1>3. ASSUME NEW y \in T
        PROVE  \E i \in S : y = Key(p, f, off, i)
    <2>1. y \in 1..off[n] /\ c[y].op = "instr_LOC_string"
      BY <1>1 DEF CallsAt
    <2>2. y \in (off[0] + 1)..off[n]
      <3> HIDE DEF n, c
      <3>2. y # 1 \/ off[0] # 1
        BY <1>1, <2>1
      <3> QED
        BY <1>1, <2>1, <3>2
    <2>3. PICK i \in 1..n : off[i - 1] < y /\ y <= off[i] /\ CodeAt(p, f, off, i, y)
      BY <1>1, <2>2, Zenon
    <2>4. i \in DOMAIN p.code[f] /\ p.code[f][i].op \notin Library
      BY <1>1, <2>3, SourceType
    <2>5. y = Key(p, f, off, i) /\ IsKeyPoint(p.code[f], i)
      BY <2>1, <2>3, <2>4 DEF CodeAt, Library
    <2> QED
      BY <2>4, <2>5 DEF KeyPointsAt
  <1>4. S \in SUBSET (1..n) /\ T \in SUBSET (1..last)
    BY <1>1 DEF KeyPointsAt, CallsAt
  <1>5. last \in Nat /\ last = off[n]
    <2> HIDE DEF n
    <2>2. n \in 0..n
      BY <1>1
    <2> QED
      BY <1>1, <2>2
  <1>6. ASSUME NEW i \in S, NEW k \in S, i < k
        PROVE  Key(p, f, off, i) < Key(p, f, off, k)
    <2>1. Key(p, f, off, i) \in Nat /\ Key(p, f, off, k) \in Nat
      BY <1>2
    <2> QED
      BY <1>0, <1>2, <1>6, <2>1, BlockOrder
  <1> HIDE DEF n, S, T, last, c
  <1>7. S \in SUBSET Nat /\ T \in SUBSET Nat /\ g \in [S -> T]
    BY <1>2, <1>4, <1>5
  <1>8. \A x \in S : \A y \in S : g[x] = g[y] => x = y
    <2> SUFFICES ASSUME NEW x \in S, NEW y \in S, g[x] = g[y] PROVE x = y
      OBVIOUS
    <2>1. x \in Nat /\ y \in Nat /\ g[x] = Key(p, f, off, x) /\ g[y] = Key(p, f, off, y)
          /\ Key(p, f, off, x) \in Int /\ Key(p, f, off, y) \in Int
      BY <1>2, <1>7
    <2>2. ~(x < y) /\ ~(y < x)
      BY <1>6, <2>1
    <2> QED
      BY <2>1, <2>2
  <1>9. \A z \in T : \E x \in S : g[x] = z
    BY <1>3
  <1>10. \A x \in S : x < n + 1 <=> g[x] < last + 1
    <2> TAKE x \in S
    <2>1. x \in 1..n /\ g[x] \in 1..last
      BY <1>2
    <2> QED
      BY <1>1, <1>5, <2>1
  <1> HIDE DEF g
  <1>11. n + 1 \in Nat /\ last + 1 \in Nat
    BY <1>1, <1>5
  <1>12. CountBelow(S, n + 1) = CountBelow(T, last + 1)
    BY <1>7, <1>8, <1>9, <1>10, <1>11, SameCount
  <1>13. \A x \in S : x < n + 1
    BY <1>4, <1>1
  <1>14. CountBelow(S, n + 1) = Cardinality(S)
    BY <1>7, <1>11, <1>13, BelowAll
  <1> QED
    BY <1>12, <1>14 DEF S, T, last

-----------------------------------------------------------------------------
(* Programs without hidden threads: every creation is announced, one by    *)
(* one, and its routine registers.                                         *)
LEMMA ClosedCreations ==
    ASSUME NEW p, IsProgram(p), Closed(p), NEW i \in DOMAIN p.code["main"],
           p.code["main"][i].op \in Creations
    PROVE  /\ p.code["main"][i].op \in Matched(p, p.file["main"])
           /\ p.code["main"][i].to \in PthreadCallFunction(p, p.file[p.code["main"][i].to])
  <1> DEFINE s == p.code["main"]
             in == s[i]
             file == p.file["main"]
  <1>1. "main" \in DOMAIN p.code
    BY DEF IsProgram
  <1>2. in \in ToSet(s)
    BY DEF ToSet
  <1>3. /\ in.known /\ p.file[in.to] = file
        /\ in.op \in Wrappers => Calls(p, file, {"pthread_create"}) = {}
    BY <1>1, <1>2 DEF Closed
  <1>4. "main" \in InFile(p, file)
    BY <1>1 DEF InFile
  <1>5. \A ops : in.op \in ops => in \in Calls(p, file, ops)
    BY <1>2, <1>4 DEF Calls
  <1>6. in.op \in Matched(p, file)
    <2>1. CASE in.op = "pthread_create"
      <3>1. in \in Calls(p, file, {"pthread_create"})
        BY <1>5, <2>1
      <3>2. in.to \in Constants(Calls(p, file, {"pthread_create"}))
        BY <1>3, <3>1 DEF Constants
      <3> QED
        BY <2>1, <3>2 DEF Matched, OnlyPthreadCreate
    <2>2. CASE in.op \in Wrappers
      <3>1. Constants(Calls(p, file, {"pthread_create"})) = {}
        BY <1>3, <2>2 DEF Constants
      <3> QED
        BY <2>2, <3>1 DEF Matched, OnlyPthreadCreate
    <2> QED
      BY <2>1, <2>2 DEF Creations
  <1>7. in.to \in Constants(Calls(p, file, Matched(p, file)))
    <2>1. in \in Calls(p, file, Matched(p, file))
      BY <1>5, <1>6
    <2> HIDE DEF in
    <2> QED
      BY <1>3, <2>1 DEF Constants
  <1> QED
    BY <1>3, <1>6, <1>7 DEF PthreadCallFunction

(* In a program without hidden threads, the pass (449-497) puts one call   *)
(* of before_pthread_create in front of each creation: as many as there    *)
(* are creations up to it.                                                 *)
THEOREM Announced ==
    ASSUME NEW p, IsProgram(p), Closed(p), NEW y \in CallsAt(p, "main", Creations)
    PROVE  CountBelow(CallsAt(p, "main", {"before_pthread_create"}), y)
              = CountBelow(CallsAt(p, "main", Creations), y) + 1
  <1>m. "main" \in DOMAIN p.code
    BY DEF IsProgram
  <1>0. PICK off : CodeShape(p, "main", off)
    BY <1>m, CodeIs
  <1> DEFINE n == Len(p.code["main"])
             c == Instrument(p)["main"]
             S == SourceAt(p, "main", Creations)
             B == CallsAt(p, "main", {"before_pthread_create"})
             T == CallsAt(p, "main", Creations)
             g == [i \in S |-> off[i - 1] + 1]
  <1>1. /\ n \in Nat /\ off \in [0..n -> Nat] /\ DOMAIN p.code["main"] = 1..n
        /\ DOMAIN c = 1..off[n] /\ Len(c) = off[n]
        /\ \A x, w \in 0..n : x <= w => off[x] <= off[w]
        /\ off[0] = 1 /\ c[1].op = "instr_LOC"
        /\ \A i \in 1..n : BlockAt(p, "main", off, i)
        /\ \A z \in (off[0] + 1)..off[n] :
              \E i \in 1..n : off[i - 1] < z /\ z <= off[i] /\ CodeAt(p, "main", off, i, z)
    BY <1>0, Zenon DEF CodeShape
  <1>2. Foreign(Creations)
    BY DEF Foreign, Creations, Wrappers, Library
  <1>3. /\ S \in SUBSET (1..n) /\ \A z \in T : \E i \in S : z = off[i]
        /\ \A i \in S : CountBelow(T, off[i]) = CountBelow(S, i)
    BY <1>0, <1>2, <1>m, OwnPlaces, OwnCount
  <1>4. ASSUME NEW i \in S
        PROVE  /\ off[i - 1] + 1 \in B /\ off[i - 1] + 1 < off[i]
               /\ i \in 1..n /\ off[i] \in Nat /\ off[i - 1] \in Nat
    <2>1. i \in 1..n /\ p.code["main"][i].op \in Matched(p, p.file["main"])
      BY <1>1, <1>3, ClosedCreations DEF SourceAt
    <2>2. off[i - 1] + 1 < off[i] /\ c[off[i - 1] + 1].op = "before_pthread_create"
      BY <1>1, <2>1 DEF BlockAt
    <2> HIDE DEF n
    <2>3. i \in 0..n /\ i - 1 \in 0..n /\ n \in 0..n /\ i <= n
      BY <1>1, <2>1
    <2>4. off[i] \in Nat /\ off[i - 1] \in Nat /\ off[n] \in Nat /\ off[i] <= off[n]
      BY <1>1, <2>3
    <2>5. off[i - 1] + 1 \in 1..off[n]
      BY <2>2, <2>4
    <2> QED
      BY <1>1, <2>1, <2>2, <2>4, <2>5 DEF CallsAt
  <1>5. ASSUME NEW z \in B
        PROVE  \E i \in S : z = off[i - 1] + 1
    <2>1. z \in 1..off[n] /\ c[z].op = "before_pthread_create"
      BY <1>1 DEF CallsAt
    <2>2. z \in (off[0] + 1)..off[n]
      <3> HIDE DEF n, c
      <3>2. z # 1
        BY <1>1, <2>1
      <3> QED
        BY <1>1, <2>1, <3>2
    <2>3. PICK i \in 1..n : off[i - 1] < z /\ z <= off[i] /\ CodeAt(p, "main", off, i, z)
      BY <1>1, <2>2, Zenon
    <2>4. i \in DOMAIN p.code["main"] /\ p.code["main"][i].op \notin Library
      BY <1>1, <1>m, <2>3, SourceType
    <2>5. z = off[i - 1] + 1 /\ p.code["main"][i].op \in Matched(p, p.file["main"])
      BY <2>1, <2>3, <2>4 DEF CodeAt, Library
    <2>6. p.code["main"][i].op \in Creations
      BY <2>5, MatchedAreCreations
    <2> QED
      BY <2>4, <2>5, <2>6 DEF SourceAt
  <1>6. S \in SUBSET Nat /\ B \in SUBSET Nat
    <2>1. B \in SUBSET (1..off[n])
      BY <1>1 DEF CallsAt
    <2>2. \A z \in B : z \in Nat
      BY <2>1
    <2>3. \A i \in S : i \in Nat
      BY <1>3
    <2> QED
      BY <2>2, <2>3
  <1>7. PICK k \in S : y = off[k]
    BY <1>3
  <1> HIDE DEF S, B, T, n, c
  <1>8. g \in [S -> B]
    BY <1>4
  <1>9. ASSUME NEW i \in S, NEW j \in S, i < j
        PROVE  off[i - 1] + 1 < off[j - 1] + 1 /\ off[i] <= off[j - 1]
    <2>1. i \in 0..n /\ j - 1 \in 0..n /\ i <= j - 1
      BY <1>1, <1>4, <1>9
    <2>2. off[i] <= off[j - 1]
      BY <1>1, <2>1
    <2> QED
      BY <1>4, <2>2
  <1>10. \A x \in S : \A z \in S : g[x] = g[z] => x = z
    <2> SUFFICES ASSUME NEW x \in S, NEW z \in S, g[x] = g[z] PROVE x = z
      OBVIOUS
    <2>1. x \in Nat /\ z \in Nat /\ off[x - 1] \in Nat /\ off[z - 1] \in Nat
          /\ off[x - 1] + 1 = off[z - 1] + 1
      BY <1>4, <1>6
    <2>2. ~(x < z) /\ ~(z < x)
      BY <1>9, <2>1
    <2> QED
      BY <2>1, <2>2
  <1>11. \A z \in B : \E x \in S : g[x] = z
    BY <1>5
  <1>12. \A x \in S : x < k + 1 <=> g[x] < off[k]
    <2> TAKE x \in S
    <2>1. /\ x \in Nat /\ k \in Nat /\ off[x - 1] \in Nat /\ off[x] \in Nat /\ off[k] \in Nat
          /\ off[k - 1] \in Nat
          /\ g[x] = off[x - 1] + 1 /\ off[x - 1] + 1 < off[x] /\ off[k - 1] + 1 < off[k]
      BY <1>4, <1>6
    <2>2. CASE x < k
      BY <1>9, <2>1, <2>2
    <2>3. CASE x = k
      BY <2>1, <2>3
    <2>4. CASE k < x
      BY <1>9, <2>1, <2>4
    <2> QED
      BY <2>1, <2>2, <2>3, <2>4
  <1> HIDE DEF g
  <1>13. k \in Nat /\ k + 1 \in Nat /\ off[k] \in Nat
    BY <1>4, <1>6
  <1>14. CountBelow(S, k + 1) = CountBelow(B, off[k])
    BY <1>6, <1>8, <1>10, <1>11, <1>12, <1>13, SameCount
  <1>15. CountBelow(S, k + 1) = CountBelow(S, k) + 1
    BY <1>6, <1>13, BelowNext
  <1> QED
    BY <1>3, <1>7, <1>14, <1>15 DEF B, T

-----------------------------------------------------------------------------
(* What the executions of an instrumented program rest on.                 *)

LEMMA InstrumentType ==
    ASSUME NEW p, IsProgram(p)
    PROVE  /\ DOMAIN Instrument(p) = DOMAIN p.code /\ "main" \in DOMAIN Instrument(p)
           /\ \A f \in DOMAIN p.code : Instrument(p)[f] \in Seq(Instruction)
  <1>1. DOMAIN Instrument(p) = DOMAIN p.code /\ "main" \in DOMAIN p.code
    BY DEF Instrument, IsProgram
  <1>2. ASSUME NEW f \in DOMAIN p.code PROVE Instrument(p)[f] \in Seq(Instruction)
    <2>1. PICK off : CodeShape(p, f, off)
      BY CodeIs
    <2> QED
      BY <2>1, Zenon DEF CodeShape
  <1> QED
    BY <1>1, <1>2

(* main begins with its own KP, a registering function by registering, and *)
(* neither call is anywhere else; main creates.                            *)
LEMMA EntryCalls ==
    ASSUME NEW p, IsProgram(p), NEW f \in DOMAIN p.code
    PROVE  LET c == Instrument(p)[f]
           IN  /\ f = "main" => 1 \in DOMAIN c /\ c[1].op = "instr_LOC"
               /\ f # "main" /\ f \in PthreadCallFunction(p, p.file[f])
                    => 1 \in DOMAIN c /\ c[1].op = "instr_PthreadCall"
               /\ \A y \in DOMAIN c :
                     /\ c[y].op = "instr_LOC" => f = "main" /\ y = 1
                     /\ c[y].op = "instr_PthreadCall" => f # "main" /\ y = 1
                     /\ c[y].op = "before_pthread_create" => f = "main"
                     /\ c[y].op \in Creations => f = "main" /\ c[y].to \in DOMAIN p.code \ {"main"}
  <1>0. PICK off : CodeShape(p, f, off)
    BY CodeIs
  <1> DEFINE n == Len(p.code[f])
             c == Instrument(p)[f]
  <1>1. /\ n \in Nat /\ off \in [0..n -> Nat] /\ DOMAIN p.code[f] = 1..n
        /\ DOMAIN c = 1..off[n]
        /\ \A x, w \in 0..n : x <= w => off[x] <= off[w]
        /\ off[0] \in 0..1
        /\ f = "main" => off[0] = 1 /\ c[1].op = "instr_LOC"
        /\ f # "main" /\ off[0] = 1 => c[1].op = "instr_PthreadCall"
        /\ f # "main" /\ f \in PthreadCallFunction(p, p.file[f]) => off[0] = 1
        /\ \A i \in 1..n : BlockAt(p, f, off, i)
        /\ \A y \in (off[0] + 1)..off[n] :
              \E i \in 1..n : off[i - 1] < y /\ y <= off[i] /\ CodeAt(p, f, off, i, y)
    BY <1>0, Zenon DEF CodeShape
  <1>2. off[0] = 1 => 1 \in DOMAIN c
    <2> HIDE DEF n, c
    <2>1. 0 \in 0..n /\ n \in 0..n /\ 0 <= n /\ off[n] \in Nat
      BY <1>1
    <2>2. off[0] <= off[n]
      BY <1>1, <2>1
    <2> QED
      BY <1>1, <2>1, <2>2
  <1>3. ASSUME NEW y \in DOMAIN c
        PROVE  /\ c[y].op = "instr_LOC" => f = "main" /\ y = 1
               /\ c[y].op = "instr_PthreadCall" => f # "main" /\ y = 1
               /\ c[y].op = "before_pthread_create" => f = "main"
               /\ c[y].op \in Creations => f = "main" /\ c[y].to \in DOMAIN p.code \ {"main"}
    <2>1. CASE y \in (off[0] + 1)..off[n]
      <3>1. PICK i \in 1..n : off[i - 1] < y /\ y <= off[i] /\ CodeAt(p, f, off, i, y)
        BY <1>1, <2>1, Zenon
      <3> DEFINE in == p.code[f][i]
      <3>2. /\ i \in DOMAIN p.code[f] /\ in.op \notin Library
            /\ in.op \in Creations => f = "main" /\ in.to \in DOMAIN p.code \ {"main"}
        BY <1>1, <3>1, SourceType
      <3>3. CASE c[y].op = in.op /\ in.op # "stmt" /\ y = off[i]
        <4>1. c[y] = [op |-> in.op, to |-> in.to, line |-> in.line]
          BY <1>1, <3>1, <3>3 DEF BlockAt
        <4>2. c[y].to = in.to
          <5> HIDE DEF c, in
          <5> QED
            BY <4>1
        <4>3. c[y].op \notin Library
          BY <3>2, <3>3
        <4> QED
          BY <3>2, <3>3, <4>2, <4>3 DEF Library
      <3>4. CASE c[y].op = "instr_LOC_string"
        BY <3>4 DEF Creations, Wrappers
      <3>5. CASE c[y].op = "before_pthread_create" /\ in.op \in Matched(p, p.file[f])
        <4>1. in.op \in Creations
          BY <3>5, MatchedAreCreations
        <4> QED
          BY <3>2, <3>5, <4>1 DEF Creations, Wrappers
      <3>6. CASE c[y].op = "traceEnd"
        BY <3>6 DEF Creations, Wrappers
      <3> QED
        BY <3>1, <3>3, <3>4, <3>5, <3>6 DEF CodeAt
    <2>2. CASE y \notin (off[0] + 1)..off[n]
      <3>1. y = 1 /\ off[0] = 1
        <4> HIDE DEF n, c
        <4>1. n \in 0..n /\ off[n] \in Nat /\ y \in 1..off[n]
          BY <1>1
        <4> QED
          BY <1>1, <2>2, <4>1
      <3>2. c[y].op = IF f = "main" THEN "instr_LOC" ELSE "instr_PthreadCall"
        BY <1>1, <3>1
      <3> HIDE DEF c
      <3> QED
        BY <3>1, <3>2 DEF Creations, Wrappers
    <2> QED
      BY <2>1, <2>2
  <1> HIDE DEF c
  <1>4. f = "main" => 1 \in DOMAIN c /\ c[1].op = "instr_LOC"
    BY <1>1, <1>2
  <1>5. f # "main" /\ f \in PthreadCallFunction(p, p.file[f]) => 1 \in DOMAIN c /\ c[1].op = "instr_PthreadCall"
    BY <1>1, <1>2
  <1> QED
    BY <1>3, <1>4, <1>5 DEF c

LEMMA MainIsFunction ==
    ASSUME NEW p, IsProgram(p)
    PROVE  "main" \in DOMAIN p.code
  BY DEF IsProgram

LEMMA CreationsForeign == Foreign(Creations)
  BY DEF Foreign, Creations, Wrappers, Library

(* The creations of the code are those of the source, in their order, with *)
(* the same start routines (runOnModule, 402-580).                         *)
THEOREM NthCreation ==
    ASSUME NEW p, IsProgram(p)
    PROVE  LET S == SourceAt(p, "main", Creations)
               T == CallsAt(p, "main", Creations)
               c == Instrument(p)["main"]
           IN  /\ S \in SUBSET Nat /\ T \in SUBSET (1..Len(c)) /\ IsFiniteSet(S)
               /\ CountBelow(T, Len(c) + 1) = Cardinality(S)
               /\ \A y \in T : \E i \in S : CountBelow(S, i) = CountBelow(T, y)
                                            /\ c[y].to = p.code["main"][i].to
  <1> DEFINE S == SourceAt(p, "main", Creations)
             T == CallsAt(p, "main", Creations)
             c == Instrument(p)["main"]
             n == Len(p.code["main"])
  <1>1. PICK off : CodeShape(p, "main", off)
    BY MainIsFunction, CodeIs
  <1>2. /\ S \in SUBSET (1..n) /\ T \in SUBSET (1..Len(c))
        /\ \A i \in S : off[i] \in T /\ c[off[i]].to = p.code["main"][i].to
        /\ \A y \in T : \E i \in S : y = off[i]
        /\ \A i \in S : CountBelow(T, off[i]) = CountBelow(S, i)
        /\ CountBelow(T, Len(c) + 1) = Cardinality(S)
    BY <1>1, CreationsForeign, MainIsFunction, OwnPlaces, OwnCount
  <1>3. n \in Nat
    BY <1>1, Zenon DEF CodeShape
  <1> HIDE DEF S, T, c, n
  <1>4. S \in SUBSET Nat /\ IsFiniteSet(S)
    <2>1. IsFiniteSet(1..n)
      BY <1>3, FS_Interval
    <2>2. IsFiniteSet(S)
      BY <1>2, <2>1, FS_Subset
    <2>3. \A x \in S : x \in Nat
      BY <1>2
    <2> QED
      BY <2>2, <2>3
  <1>5. ASSUME NEW y \in T
        PROVE  \E i \in S : CountBelow(S, i) = CountBelow(T, y) /\ c[y].to = p.code["main"][i].to
    BY <1>2
  <1> QED
    BY <1>2, <1>4, <1>5 DEF S, T, c

-----------------------------------------------------------------------------
(* The ends of a program: traceEnd stands in front of each _exit.          *)
ExitCalls == {"traceEnd", "_exit"}

LEMMA ExitForeign == Foreign({"_exit"}) /\ Foreign({"pthread_join"})
  BY DEF Foreign, Library

LEMMA ExitPlaces ==
    ASSUME NEW p, IsProgram(p), NEW f \in DOMAIN p.code, NEW off, CodeShape(p, f, off),
           NEW y \in CallsAt(p, f, ExitCalls)
    PROVE  \E i \in SourceAt(p, f, {"_exit"}) :
              /\ off[i - 1] < y /\ y <= off[i]
              /\ off[i - 1] + 1 \in CallsAt(p, f, {"traceEnd"})
              /\ y \in CallsAt(p, f, {"_exit"}) => off[i - 1] + 1 < y
  <1> DEFINE n == Len(p.code[f])
             c == Instrument(p)[f]
  <1>1. /\ n \in Nat /\ off \in [0..n -> Nat] /\ DOMAIN p.code[f] = 1..n
        /\ DOMAIN c = 1..off[n] /\ Len(c) = off[n]
        /\ \A x, w \in 0..n : x <= w => off[x] <= off[w]
        /\ off[0] \in 0..1
        /\ f = "main" => off[0] = 1 /\ c[1].op = "instr_LOC"
        /\ f # "main" /\ off[0] = 1 => c[1].op = "instr_PthreadCall"
        /\ \A i \in 1..n : BlockAt(p, f, off, i)
        /\ \A z \in (off[0] + 1)..off[n] :
              \E i \in 1..n : off[i - 1] < z /\ z <= off[i] /\ CodeAt(p, f, off, i, z)
    BY Zenon DEF CodeShape
  <1>2. y \in 1..off[n] /\ c[y].op \in ExitCalls
    BY <1>1 DEF CallsAt
  <1>3. y \in (off[0] + 1)..off[n]
    <2>1. off[0] = 1 => c[1].op \notin ExitCalls
      BY <1>1 DEF ExitCalls
    <2> HIDE DEF n, c
    <2>2. y # 1 \/ off[0] # 1
      BY <1>2, <2>1
    <2> QED
      BY <1>1, <1>2, <2>2
  <1>4. PICK i \in 1..n : off[i - 1] < y /\ y <= off[i] /\ CodeAt(p, f, off, i, y)
    BY <1>1, <1>3, Zenon
  <1>5. p.code[f][i].op = "_exit" /\ (c[y].op = "_exit" => y = off[i])
    <2>1. p.code[f][i].op \notin Library
      BY <1>1, SourceType
    <2> QED
      BY <1>2, <1>4, <2>1 DEF CodeAt, ExitCalls, Library
  <1>6. off[i - 1] + 1 < off[i] /\ c[off[i - 1] + 1].op = "traceEnd"
    BY <1>1, <1>5 DEF BlockAt
  <1>7. off[i - 1] + 1 \in 1..off[n]
    <2> HIDE DEF n, c
    <2>1. i \in 0..n /\ i - 1 \in 0..n /\ n \in 0..n /\ i <= n
      BY <1>1
    <2>2. off[i] \in Nat /\ off[i - 1] \in Nat /\ off[n] \in Nat /\ off[i] <= off[n]
      BY <1>1, <2>1
    <2> QED
      BY <1>6, <2>2
  <1>8. i \in SourceAt(p, f, {"_exit"}) /\ off[i - 1] + 1 \in CallsAt(p, f, {"traceEnd"})
    BY <1>1, <1>5, <1>6, <1>7 DEF SourceAt, CallsAt
  <1>9. y \in CallsAt(p, f, {"_exit"}) => off[i - 1] + 1 < y
    BY <1>5, <1>6 DEF CallsAt
  <1> QED
    BY <1>4, <1>8, <1>9

LEMMA ExitsInSource ==
    ASSUME NEW p, IsProgram(p), NEW f \in DOMAIN p.code
    PROVE  /\ SourceAt(p, f, {"_exit"}) = {} => CallsAt(p, f, ExitCalls) = {}
           /\ \A y \in CallsAt(p, f, {"_exit"}) : \E x \in CallsAt(p, f, {"traceEnd"}) : x < y
  <1>1. PICK off : CodeShape(p, f, off)
    BY CodeIs
  <1>2. CallsAt(p, f, {"_exit"}) \subseteq CallsAt(p, f, ExitCalls)
    BY DEF CallsAt, ExitCalls
  <1> QED
    BY <1>1, <1>2, ExitPlaces

(* If in the source each thread is joined before main may exit, so it is   *)
(* in the code.                                                            *)
JoinsAll(p) ==
    LET c == Instrument(p)["main"]
    IN  \A y \in CallsAt(p, "main", Creations) :
            \E z \in CallsAt(p, "main", {"pthread_join"}) :
                /\ y < z /\ c[z].to = c[y].to
                /\ \A x \in CallsAt(p, "main", ExitCalls) : z < x

LEMMA JoinedInCode ==
    ASSUME NEW p, IsProgram(p),
           \A i \in SourceAt(p, "main", Creations) :
              \E j \in SourceAt(p, "main", {"pthread_join"}) :
                 /\ i < j /\ p.code["main"][j].to = p.code["main"][i].to
                 /\ \A e \in SourceAt(p, "main", {"_exit"}) : j < e
    PROVE  JoinsAll(p)
  <1> DEFINE s == p.code["main"]
             c == Instrument(p)["main"]
             n == Len(s)
             J == SourceAt(p, "main", {"pthread_join"})
             X == SourceAt(p, "main", {"_exit"})
             S == SourceAt(p, "main", Creations)
  <1>1. PICK off : CodeShape(p, "main", off)
    BY MainIsFunction, CodeIs
  <1>2. /\ S \in SUBSET (1..n) /\ CallsAt(p, "main", Creations) \in SUBSET (1..Len(c))
        /\ \A i \in S : off[i - 1] < off[i] /\ c[off[i]].to = s[i].to
        /\ \A y \in CallsAt(p, "main", Creations) : \E i \in S : y = off[i]
    BY <1>1, CreationsForeign, MainIsFunction, OwnPlaces
  <1>3. /\ J \in SUBSET (1..n)
        /\ \A i \in J : /\ off[i] \in CallsAt(p, "main", {"pthread_join"})
                        /\ off[i - 1] < off[i] /\ c[off[i]].to = s[i].to
    BY <1>1, ExitForeign, MainIsFunction, OwnPlaces
  <1>4. X \in SUBSET (1..n)
    BY <1>1, ExitForeign, MainIsFunction, OwnPlaces
  <1>5. n \in Nat /\ off \in [0..n -> Nat] /\ CallsAt(p, "main", ExitCalls) \in SUBSET (1..Len(c))
    <2>1. n \in Nat /\ off \in [0..n -> Nat] /\ DOMAIN c = 1..Len(c)
      BY <1>1, Zenon DEF CodeShape
    <2> QED
      BY <2>1 DEF CallsAt
  <1>6. SUFFICES ASSUME NEW y \in CallsAt(p, "main", Creations)
                 PROVE  \E z \in CallsAt(p, "main", {"pthread_join"}) :
                           /\ y < z /\ c[z].to = c[y].to
                           /\ \A x \in CallsAt(p, "main", ExitCalls) : z < x
    BY DEF JoinsAll
  <1>7. PICK i \in S : y = off[i]
    BY <1>2
  <1>8. PICK j \in J : i < j /\ s[j].to = s[i].to /\ \A e \in X : j < e
    OBVIOUS
  <1> HIDE DEF n, J, X, S
  <1>9. i \in 1..n /\ j \in 1..n /\ off[i] \in Nat /\ off[j] \in Nat
    BY <1>2, <1>3, <1>5
  <1>10. y < off[j] /\ c[off[j]].to = c[y].to
    <2>1. off[i - 1] < off[i] /\ off[j - 1] < off[j] /\ off[i] <= off[i] /\ off[j] <= off[j]
      BY <1>2, <1>3, <1>9
    <2>2. off[i] < off[j]
      BY <1>1, <1>8, <1>9, <2>1, BlockOrder DEF n
    <2> QED
      BY <1>2, <1>3, <1>7, <1>8, <2>2
  <1>11. ASSUME NEW x \in CallsAt(p, "main", ExitCalls) PROVE off[j] < x
    <2>1. PICK e \in X : off[e - 1] < x /\ x <= off[e]
      BY <1>1, MainIsFunction, ExitPlaces DEF X
    <2>2. j < e /\ e \in 1..n /\ x \in Nat
      BY <1>4, <1>5, <1>8
    <2>3. off[j - 1] < off[j] /\ off[j] <= off[j]
      BY <1>3, <1>9
    <2> QED
      BY <1>1, <1>9, <2>1, <2>2, <2>3, BlockOrder DEF n
  <1> QED
    BY <1>3, <1>10, <1>11

-----------------------------------------------------------------------------
(* The calls that matter, by their places in the instrumented functions.   *)
CreationCalls == CallsAt(prog, "main", Creations)
AnnouncingCalls == CallsAt(prog, "main", {"before_pthread_create"})
JoinCalls == CallsAt(prog, "main", {"pthread_join"})
KeyCalls(f) == CallsAt(prog, f, {"instr_LOC_string"})

-----------------------------------------------------------------------------
ThreadType == [fn : DOMAIN prog.code, at : Nat \ {0}, my_tid : Nat, kps : Nat,
               orig : Nat, idx : Nat, yields : Seq(Nat)]
ShmType == [time : Nat, N : Nat, M : Nat, num : [Rows -> Nat],
            kp : [Slots -> Nat], loc : [Slots -> Nat]]

ProgramTypes ==
    /\ \E s \in Sessions : prog = s.prog /\ iterPeriod = s.periods
    /\ phase \in {"dry", "set up", "default", "learn", "test", "start",
                  "testing", "tested", "failed"}
    /\ code = IF Compiles(prog) THEN Instrument(prog) ELSE <<>>
    /\ ~Compiles(prog) => phase = "failed" /\ ~Running
DriverTypes ==
    /\ N \in Nat /\ M \in Nat /\ zero_in_KP \in Nat /\ returnNormal \in Nat
    /\ kpMaxNumArray \in [Rows -> Nat]
    /\ shm \in ShmType
    /\ phase = "test" => N + zero_in_KP <= ThreadNum
ProcessTypes ==
    /\ mode \in {"none", "dry", "dbds", "returned", "refused"}
    /\ num_td \in Nat /\ num_kp \in Nat /\ DBDSruntime \in Nat
    /\ kpYield \in [Slots -> Nat]
    /\ c_tid \in Nat /\ turn \in 0..c_tid
    /\ tids \in Tids
    /\ threads \in Seq(ThreadType)
    /\ ~Running => threads = <<>>

(* Main is there, has its own KP when it has begun, and the other threads  *)
(* are those it has created, each with the KPs it has passed.              *)
Member(t) ==
    /\ threads[t].at <= Len(code[threads[t].fn]) + 1
    /\ threads[t].my_tid <= c_tid
    /\ threads[t].at = 1 => threads[t].my_tid = 0
    /\ t # Main => /\ threads[t].kps = CountBelow(KeyCalls(threads[t].fn), threads[t].at)
                   /\ \E i \in Creating : /\ CountBelow(Creating, i) = t - 2
                                          /\ threads[t].fn = prog.code["main"][i].to
Team ==
    Running =>
        /\ threads # <<>>
        /\ Len(threads) = 1 + CountBelow(CreationCalls, threads[Main].at)
        /\ threads[Main].fn = "main" /\ threads[Main].my_tid = 0
        /\ threads[Main].at > 1 => threads[Main].kps > 0
        /\ \A t \in Thread : Member(t)

(* No more threads are counted than created. *)
FewThreads == {N, shm.N, num_td} \subseteq 0..Cardinality(Creating)

(* A thread has its number, or is the last one and its number waits for it. *)
Numbered(t) ==
    \/ threads[t].at > 1 /\ threads[t].my_tid = t - 1
    \/ threads[t].at = 1 /\ threads[t].my_tid = 0 /\ turn = t - 1 /\ c_tid = t - 1
Numbering ==
    (Running /\ Closed(prog)) =>
        /\ c_tid = CountBelow(AnnouncingCalls, threads[Main].at)
        /\ c_tid \in {Len(threads) - 1, Len(threads)}
        /\ turn \in {0, c_tid}
        /\ c_tid = Len(threads) => turn = c_tid
        /\ \A t \in Thread \ {Main} : Numbered(t)

(* Behind a join the threads it is about have ended. *)
JoinedEnded ==
    Running =>
        \A z \in JoinCalls : z < threads[Main].at =>
            \A t \in Thread \ {Main} :
                (threads[t].fn = code["main"][z].to /\ t <= 1 + CountBelow(CreationCalls, z))
                    => Ended(t)

(* What traceEnd is to write, and what it leaves in the counts: cleared    *)
(* ones are only replaced by the right ones.                               *)
Right(r) == IF r + 1 \in Children THEN KpsOf(r + 1) ELSE 0
CountsRight ==
    /\ \A r \in Rows : shm.num[r] = Right(r)
    /\ shm.N = Cardinality(WithKps)
    /\ shm.M = Max({KpsOf(c) : c \in Children} \cup {0})
CountsKept ==
    /\ \A r \in Rows : shm.num[r] \in {0, Right(r)}
    /\ shm.N = Cardinality(WithKps)
    /\ shm.M = Max({KpsOf(c) : c \in Children} \cup {0})
NoneTooGreat == Closed(prog) => \A r \in Rows : shm.num[r] <= Right(r)
RunPhases == {"set up", "learn", "testing"}
(* The two halves of CountsInRows: what is never wrong, and what is right  *)
(* when the maps are intact.                                               *)
RowsKept ==
    (~Running /\ mode = "returned" /\ phase \in {"set up", "learn", "testing"} /\ WellBehaved) =>
        /\ \A r \in Rows :
              shm.num[r] \in {0, IF r + 1 \in Children THEN KpsOf(r + 1) ELSE 0}
        /\ shm.N = Cardinality(WithKps)
        /\ shm.M = Max({KpsOf(c) : c \in Children} \cup {0})
RowsExact ==
    (~Running /\ mode = "returned" /\ phase \in {"set up", "learn", "testing"} /\ WellBuilt) =>
        /\ \A r \in Rows : shm.num[r] = IF r + 1 \in Children THEN KpsOf(r + 1) ELSE 0
        /\ shm.N = Cardinality(WithKps)
        /\ shm.M = Max({KpsOf(c) : c \in Children} \cup {0})
Counted ==
    /\ Running => phase \in RunPhases
    /\ NoneTooGreat
    /\ (WellBehaved /\ Running) =>
          /\ \A r \in Rows : shm.num[r] \in {0, Right(r)}
          /\ (\E x \in CallsAt(prog, "main", {"traceEnd"}) : x < threads[Main].at) => CountsRight
    /\ RowsKept
    /\ RowsExact

-----------------------------------------------------------------------------
(* What the assumptions say of the program and of its code.                *)
LEMMA ProgramFacts ==
    ASSUME ProgramTypes
    PROVE  /\ IsProgram(prog) /\ iterPeriod \in Nat \ {0}
           /\ Creating = SourceAt(prog, "main", Creations)
           /\ Creating \in SUBSET Nat /\ IsFiniteSet(Creating) /\ Cardinality(Creating) \in Nat
           /\ \A ids \in Tids : Cardinality(Creating) < Len(ids)
  <1>1. PICK s \in Sessions : prog = s.prog /\ iterPeriod = s.periods
    BY DEF ProgramTypes
  <1>2. IsProgram(prog) /\ iterPeriod \in Nat \ {0}
    BY <1>1, SessionsAssumption
  <1>3. Creating = SourceAt(prog, "main", Creations)
    BY DEF Creating, SourceAt
  <1>4. Creating \in SUBSET Nat /\ IsFiniteSet(Creating)
    BY <1>2, <1>3, NthCreation
  <1>5. \A ids \in Tids : Cardinality(Creating) < Len(ids)
    BY <1>1, SessionsAssumption DEF Creating
  <1> QED
    BY <1>2, <1>3, <1>4, <1>5, FS_CardinalityType

(* Calls are instructions, and those of the library stand where the pass   *)
(* puts them.                                                              *)
CodeOf(f) ==
    /\ code[f] = Instrument(prog)[f]
    /\ code[f] \in Seq(Instruction) /\ Len(code[f]) \in Nat /\ DOMAIN code[f] = 1..Len(code[f])
    /\ f = "main" => Len(code[f]) >= 1 /\ code[f][1].op = "instr_LOC"
    /\ f # "main" /\ f \in PthreadCallFunction(prog, prog.file[f])
         => Len(code[f]) >= 1 /\ code[f][1].op = "instr_PthreadCall"
    /\ \A y \in 1..Len(code[f]) :
          /\ code[f][y] \in Instruction
          /\ code[f][y].op = "instr_LOC" => f = "main" /\ y = 1
          /\ code[f][y].op = "instr_PthreadCall" => f # "main" /\ y = 1
          /\ code[f][y].op = "before_pthread_create" => f = "main"
          /\ code[f][y].op \in Creations
               => f = "main" /\ code[f][y].to \in DOMAIN prog.code \ {"main"}

LEMMA CodeFacts ==
    ASSUME ProgramTypes, Running \/ phase # "failed", NEW f \in DOMAIN prog.code
    PROVE  /\ code = Instrument(prog) /\ DOMAIN code = DOMAIN prog.code
           /\ "main" \in DOMAIN prog.code
           /\ CodeOf(f)
  <1>1. IsProgram(prog)
    BY ProgramFacts
  <1>2. code = Instrument(prog)
    BY DEF ProgramTypes
  <1>3. DOMAIN code = DOMAIN prog.code /\ "main" \in DOMAIN prog.code /\ code[f] \in Seq(Instruction)
    BY <1>1, <1>2, InstrumentType
  <1>4. /\ Len(code[f]) \in Nat /\ DOMAIN code[f] = 1..Len(code[f])
        /\ \A y \in 1..Len(code[f]) : code[f][y] \in Instruction
    <2> DEFINE c == code[f]
    <2>1. c \in Seq(Instruction)
      BY <1>3
    <2> HIDE DEF c
    <2>2. /\ Len(c) \in Nat /\ DOMAIN c = 1..Len(c) /\ \A y \in 1..Len(c) : c[y] \in Instruction
      BY <2>1
    <2> QED
      BY <2>2 DEF c
  <1>5. /\ f = "main" => 1 \in DOMAIN code[f] /\ code[f][1].op = "instr_LOC"
        /\ f # "main" /\ f \in PthreadCallFunction(prog, prog.file[f])
             => 1 \in DOMAIN code[f] /\ code[f][1].op = "instr_PthreadCall"
        /\ \A y \in DOMAIN code[f] :
              /\ code[f][y].op = "instr_LOC" => f = "main" /\ y = 1
              /\ code[f][y].op = "instr_PthreadCall" => f # "main" /\ y = 1
              /\ code[f][y].op = "before_pthread_create" => f = "main"
              /\ code[f][y].op \in Creations
                   => f = "main" /\ code[f][y].to \in DOMAIN prog.code \ {"main"}
    BY <1>1, <1>2, EntryCalls
  <1>6. 1 \in DOMAIN code[f] => Len(code[f]) >= 1
    BY <1>4
  <1> QED
    BY <1>2, <1>3, <1>4, <1>5, <1>6 DEF CodeOf

(* There are at most as many threads as ids and as creations. *)
LEMMA TeamSize ==
    ASSUME ProgramTypes, ProcessTypes, Team, Running
    PROVE  /\ Len(threads) \in Nat /\ Len(threads) >= 1 /\ Thread = 1..Len(threads)
           /\ Main \in Thread
           /\ \A t \in Thread : threads[t] \in ThreadType
           /\ Cardinality(Creating) \in Nat /\ Len(threads) - 1 <= Cardinality(Creating)
           /\ tids \in Seq(Nat) /\ Thread \subseteq DOMAIN tids
  <1>1. threads \in Seq(ThreadType) /\ threads # <<>> /\ tids \in Tids
    BY DEF ProcessTypes, Team
  <1>2. Len(threads) \in Nat /\ Len(threads) >= 1 /\ Thread = 1..Len(threads) /\ Main \in Thread
    BY <1>1 DEF Thread, Main
  <1>3. \A t \in Thread : threads[t] \in ThreadType
    BY <1>1, <1>2
  <1>4. threads[Main].at \in Nat
    BY <1>2, <1>3 DEF ThreadType
  <1>5. threads[Main].fn = "main" /\ "main" \in DOMAIN prog.code
    BY <1>2, <1>3 DEF Team, ThreadType
  <1>6. threads[Main].at <= Len(code["main"]) + 1 /\ Len(threads) = 1 + CountBelow(CreationCalls, threads[Main].at)
    BY <1>2, <1>5 DEF Team, Member
  <1>7. Len(code["main"]) \in Nat /\ code["main"] = Instrument(prog)["main"]
    BY <1>5, CodeFacts DEF CodeOf
  <1>8. /\ CreationCalls \in SUBSET (1..Len(code["main"]))
        /\ CountBelow(CreationCalls, Len(code["main"]) + 1) = Cardinality(Creating)
    BY <1>7, ProgramFacts, NthCreation DEF CreationCalls
  <1>c. CreationCalls \in SUBSET Nat /\ Len(code["main"]) + 1 \in Nat
    BY <1>7, <1>8
  <1>9. CountBelow(CreationCalls, threads[Main].at) <= Cardinality(Creating)
    BY <1>4, <1>6, <1>8, <1>c, BelowMonotone
  <1>10. tids \in Seq(Nat) /\ Cardinality(Creating) < Len(tids) /\ Cardinality(Creating) \in Nat
    BY <1>1, TidsAssumption, ProgramFacts
  <1>11. CountBelow(CreationCalls, threads[Main].at) \in Nat
    BY <1>4, <1>c, BelowType
  <1>12. Len(threads) - 1 <= Cardinality(Creating)
    BY <1>2, <1>6, <1>9, <1>10, <1>11
  <1>13. Thread \subseteq DOMAIN tids
    BY <1>2, <1>10, <1>12
  <1> QED
    BY <1>2, <1>3, <1>10, <1>12, <1>13

-----------------------------------------------------------------------------
(* traceEnd: there is a last writer of a row and a greatest count.         *)
Kept == {t \in Thread : threads[t].kps > 0}
WritersOf(r, intact) == {t \in Kept \ {Main} : RowOf(t, intact) = r}
LatestOf(ts) == CHOOSE t \in ts : \A u \in ts : tids[u] <= tids[t]
KpsOfAll(ts) == {threads[t].kps : t \in ts} \cup {0}

LEMMA SummaryIs ==
    ASSUME NEW intact
    PROVE  Summary(intact) = [shm EXCEPT
                  !.num = [r \in Rows |-> IF WritersOf(r, intact) = {} THEN shm.num[r]
                                          ELSE threads[LatestOf(WritersOf(r, intact))].kps],
                  !.N = Cardinality(Kept) - 1,
                  !.M = Max(KpsOfAll(Kept \ {Main}))]
  BY DEF Summary, Kept, WritersOf, LatestOf, KpsOfAll

LEMMA LatestExists ==
    ASSUME ProgramTypes, ProcessTypes, Team, Running, NEW ts \in SUBSET Thread, ts # {}
    PROVE  LatestOf(ts) \in ts
  <1> DEFINE ids == [t \in 1..Len(threads) |-> tids[t]]
             values == {tids[t] : t \in ts}
  <1>1. Thread = 1..Len(threads) /\ Len(threads) \in Nat \ {0} /\ \A t \in Thread : tids[t] \in Nat
    BY TeamSize
  <1>2. PICK i \in 1..Len(threads) : \A j \in 1..Len(threads) : ids[i] >= ids[j]
    <2>1. ids \in [1..Len(threads) -> Nat]
      BY <1>1
    <2> HIDE DEF ids
    <2> QED
      BY <1>1, <2>1, GreatestEntry
  <1>3. tids[i] \in Nat /\ \A t \in Thread : tids[t] \in 0..tids[i]
    BY <1>1, <1>2
  <1>4. values \in SUBSET (0..tids[i]) /\ values # {}
    BY <1>3
  <1>5. Max(values) \in values /\ \A x \in values : x <= Max(values)
    <2> HIDE DEF values
    <2> QED
      BY <1>3, <1>4, MaxOfSet
  <1>6. PICK t \in ts : tids[t] = Max(values)
    BY <1>5
  <1>7. \A u \in ts : tids[u] <= tids[t]
    BY <1>5, <1>6
  <1> QED
    BY <1>6, <1>7 DEF LatestOf

LEMMA GreatestKps ==
    ASSUME ProgramTypes, ProcessTypes, Team, Running, NEW ts \in SUBSET Thread
    PROVE  /\ Max(KpsOfAll(ts)) \in KpsOfAll(ts) /\ \A x \in KpsOfAll(ts) : x <= Max(KpsOfAll(ts))
           /\ KpsOfAll(ts) \subseteq Nat
  <1> DEFINE kps == [t \in 1..Len(threads) |-> threads[t].kps]
  <1>1. /\ Thread = 1..Len(threads) /\ Len(threads) \in Nat \ {0}
        /\ \A t \in Thread : threads[t].kps \in Nat
    BY TeamSize DEF ThreadType
  <1>2. PICK i \in 1..Len(threads) : \A j \in 1..Len(threads) : kps[i] >= kps[j]
    <2>1. kps \in [1..Len(threads) -> Nat]
      BY <1>1
    <2> HIDE DEF kps
    <2> QED
      BY <1>1, <2>1, GreatestEntry
  <1>3. kps[i] \in Nat /\ \A t \in Thread : threads[t].kps \in 0..kps[i]
    BY <1>1, <1>2
  <1>4. KpsOfAll(ts) \in SUBSET (0..kps[i]) /\ KpsOfAll(ts) # {}
    BY <1>3 DEF KpsOfAll
  <1>5. KpsOfAll(ts) \subseteq Nat
    BY <1>3, <1>4
  <1> QED
    BY <1>3, <1>4, <1>5, MaxOfSet

LEMMA SummaryType ==
    ASSUME ProgramTypes, DriverTypes, ProcessTypes, Team, Running, threads[Main].at > 1,
           NEW intact \in SUBSET Thread
    PROVE  /\ Summary(intact) \in ShmType
           /\ Summary(intact).N = Cardinality(Kept) - 1 /\ Summary(intact).N \in 0..Cardinality(Creating)
           /\ Summary(intact).M = Max(KpsOfAll(Kept \ {Main}))
           /\ \A r \in Rows : Summary(intact).num[r] = IF WritersOf(r, intact) = {} THEN shm.num[r]
                                               ELSE threads[LatestOf(WritersOf(r, intact))].kps
  <1> DEFINE num == [r \in Rows |-> IF WritersOf(r, intact) = {} THEN shm.num[r]
                                    ELSE threads[LatestOf(WritersOf(r, intact))].kps]
             n == Cardinality(Kept) - 1
             m == Max(KpsOfAll(Kept \ {Main}))
  <1>1. /\ Len(threads) \in Nat /\ Thread = 1..Len(threads) /\ Main \in Thread
        /\ \A t \in Thread : threads[t].kps \in Nat
        /\ Cardinality(Creating) \in Nat /\ Len(threads) - 1 <= Cardinality(Creating)
    BY TeamSize DEF ThreadType
  <1>2. Kept \in SUBSET Thread /\ Main \in Kept
    BY <1>1 DEF Kept, Team
  <1>3. Cardinality(Kept) \in Nat /\ Cardinality(Kept) >= 1 /\ Cardinality(Kept) <= Len(threads)
    <2>1. IsFiniteSet(1..Len(threads)) /\ Cardinality(1..Len(threads)) = Len(threads)
      <3>1. 1 \in Int /\ Len(threads) \in Int /\ Len(threads) >= 1
        BY <1>1
      <3>2. /\ IsFiniteSet(1..Len(threads))
            /\ Cardinality(1..Len(threads)) = IF 1 > Len(threads) THEN 0 ELSE Len(threads) - 1 + 1
        BY <3>1, FS_Interval, Zenon
      <3> QED
        BY <3>1, <3>2
    <2>2. IsFiniteSet(Kept) /\ Cardinality(Kept) <= Len(threads)
      BY <1>1, <1>2, <2>1, FS_Subset
    <2>3. Cardinality(Kept) \in Nat /\ Cardinality(Kept) # 0
      BY <1>2, <2>2, FS_CardinalityType, FS_EmptySet
    <2> QED
      BY <2>2, <2>3
  <1>4. n \in 0..Cardinality(Creating)
    BY <1>1, <1>3
  <1>5. m \in Nat
    BY <1>2, GreatestKps
  <1>6. num \in [Rows -> Nat]
    <2> SUFFICES ASSUME NEW r \in Rows
                 PROVE  (IF WritersOf(r, intact) = {} THEN shm.num[r]
                         ELSE threads[LatestOf(WritersOf(r, intact))].kps) \in Nat
      OBVIOUS
    <2>1. shm.num[r] \in Nat
      BY DEF DriverTypes, ShmType
    <2>2. WritersOf(r, intact) \in SUBSET Thread
      BY <1>2 DEF WritersOf
    <2>3. WritersOf(r, intact) # {} => LatestOf(WritersOf(r, intact)) \in Thread
      BY <2>2, LatestExists
    <2> QED
      BY <1>1, <2>1, <2>3
  <1>7. Summary(intact) = [shm EXCEPT !.num = num, !.N = n, !.M = m]
    BY SummaryIs
  <1> HIDE DEF num, n, m
  <1>8. shm \in ShmType /\ n \in Nat
    BY <1>1, <1>4 DEF DriverTypes
  <1>9. Summary(intact) \in ShmType /\ Summary(intact).num = num /\ Summary(intact).N = n /\ Summary(intact).M = m
    BY <1>5, <1>6, <1>7, <1>8 DEF ShmType
  <1> QED
    BY <1>4, <1>9 DEF num, n, m

-----------------------------------------------------------------------------
(* What a step does to the threads: one of them goes on by a call, creates *)
(* another one, or ends the process.                                       *)
Op(t) == code[threads[t].fn][threads[t].at].op
Moves(t) ==
    /\ t \in Thread /\ ~Ended(t) /\ Op(t) \notin Creations
    /\ mode' = mode /\ threads' \in Seq(ThreadType)
    /\ Len(threads') = Len(threads)
    /\ \A u \in Thread \ {t} : threads'[u] = threads[u]
    /\ threads'[t].fn = threads[t].fn /\ threads'[t].at = threads[t].at + 1
    /\ threads'[t].kps = IF Op(t) \in {"instr_LOC", "instr_LOC_string"} THEN threads[t].kps + 1
                         ELSE threads[t].kps
    /\ threads'[t].my_tid = IF Op(t) = "instr_PthreadCall" THEN turn ELSE threads[t].my_tid
Grows(t) ==
    /\ t \in Thread /\ ~Ended(t) /\ Op(t) \in Creations
    /\ mode' = mode /\ threads' \in Seq(ThreadType)
    /\ Len(threads') = Len(threads) + 1
    /\ \A u \in Thread \ {t} : threads'[u] = threads[u]
    /\ threads'[t].fn = threads[t].fn /\ threads'[t].at = threads[t].at + 1
    /\ threads'[t].kps = threads[t].kps /\ threads'[t].my_tid = threads[t].my_tid
    /\ threads'[Len(threads) + 1] = NewThread(About(t))
Ends == threads' = <<>> /\ mode' \in {"returned", "refused"}

(* Where a thread is. *)
LEMMA ThreadAt ==
    ASSUME ProgramTypes, ProcessTypes, Team, Running, NEW t \in Thread
    PROVE  /\ threads[t].fn \in DOMAIN prog.code /\ CodeOf(threads[t].fn)
           /\ threads[t].at \in Nat \ {0} /\ threads[t].at <= Len(code[threads[t].fn]) + 1
           /\ threads[t].kps \in Nat /\ threads[t].my_tid \in 0..c_tid
           /\ ~Ended(t) => threads[t].at \in 1..Len(code[threads[t].fn])
           /\ t = Main <=> threads[t].fn = "main"
  <1>1. threads[t] \in ThreadType /\ Member(t)
    BY TeamSize DEF Team
  <1>2. /\ threads[t].fn \in DOMAIN prog.code /\ threads[t].at \in Nat \ {0}
        /\ threads[t].kps \in Nat /\ threads[t].my_tid \in Nat
    BY <1>1 DEF ThreadType
  <1>3. CodeOf(threads[t].fn)
    BY <1>2, CodeFacts
  <1>4. threads[t].at <= Len(code[threads[t].fn]) + 1 /\ threads[t].my_tid <= c_tid
    BY <1>1 DEF Member
  <1>5. ~Ended(t) => threads[t].at \in 1..Len(code[threads[t].fn])
    BY <1>2, <1>3 DEF Ended, CodeOf
  <1>6. t = Main => threads[t].fn = "main"
    BY DEF Team
  <1>7. t # Main => threads[t].fn # "main"
    <2> HAVE t # Main
    <2>1. PICK i \in Creating : threads[t].fn = prog.code["main"][i].to
      BY <1>1 DEF Member
    <2>2. i \in DOMAIN prog.code["main"] /\ prog.code["main"][i].op \in Creations
      BY <2>1 DEF Creating
    <2>3. IsProgram(prog) /\ "main" \in DOMAIN prog.code
      BY ProgramFacts, MainIsFunction
    <2> QED
      BY <2>1, <2>2, <2>3, SourceType
  <1> QED
    BY <1>2, <1>3, <1>4, <1>5, <1>6, <1>7 DEF ProcessTypes

LEMMA CreationPlaces ==
    ASSUME ProgramTypes, Running \/ phase # "failed"
    PROVE  /\ CreationCalls \in SUBSET Nat
           /\ \A y \in Nat : y \in CreationCalls <=> /\ y \in 1..Len(code["main"])
                                                     /\ code["main"][y].op \in Creations
           /\ \A y \in CreationCalls : \E i \in Creating :
                 /\ CountBelow(Creating, i) = CountBelow(CreationCalls, y)
                 /\ code["main"][y].to = prog.code["main"][i].to
  <1>1. IsProgram(prog) /\ "main" \in DOMAIN prog.code
    BY ProgramFacts, MainIsFunction
  <1>2. CodeOf("main")
    BY <1>1, CodeFacts
  <1>3. code["main"] = Instrument(prog)["main"] /\ DOMAIN code["main"] = 1..Len(code["main"])
    BY <1>2 DEF CodeOf
  <1>4. /\ CreationCalls \in SUBSET (1..Len(code["main"]))
        /\ \A y \in CreationCalls : \E i \in Creating :
                 /\ CountBelow(Creating, i) = CountBelow(CreationCalls, y)
                 /\ code["main"][y].to = prog.code["main"][i].to
    BY <1>1, <1>3, ProgramFacts, NthCreation DEF CreationCalls
  <1>5. CreationCalls = {y \in DOMAIN code["main"] : code["main"][y].op \in Creations}
    BY <1>3 DEF CreationCalls, CallsAt
  <1>6. \A y \in Nat : y \in CreationCalls <=> /\ y \in 1..Len(code["main"])
                                               /\ code["main"][y].op \in Creations
    BY <1>3, <1>5
  <1>7. CreationCalls \in SUBSET Nat
    BY <1>4
  <1> QED
    BY <1>4, <1>6, <1>7

(* As a thread goes on, KPs are counted. *)
LEMMA KeyStep ==
    ASSUME ProgramTypes, Running, NEW f \in DOMAIN prog.code, NEW y \in 1..Len(code[f]), CodeOf(f)
    PROVE  CountBelow(KeyCalls(f), y + 1) = IF code[f][y].op = "instr_LOC_string"
                                            THEN CountBelow(KeyCalls(f), y) + 1
                                            ELSE CountBelow(KeyCalls(f), y)
  <1>1. KeyCalls(f) = {z \in 1..Len(code[f]) : code[f][z].op \in {"instr_LOC_string"}}
    BY DEF KeyCalls, CallsAt, CodeOf
  <1>2. KeyCalls(f) \in SUBSET Nat /\ y \in Nat /\ (y \in KeyCalls(f) <=> code[f][y].op = "instr_LOC_string")
    BY <1>1
  <1> QED
    BY <1>2, BelowNext

LEMMA NoneBelowOne ==
    ASSUME NEW S \in SUBSET Nat, 0 \notin S
    PROVE  CountBelow(S, 1) = 0
  <1>1. CountBelow(S, 0 + 1) = CountBelow(S, 0)
    BY BelowNext
  <1> QED
    BY <1>1, BelowZero

(* The program is the same in all steps. *)
SameProgram == prog' = prog /\ iterPeriod' = iterPeriod /\ code' = code
LEMMA SameCalls ==
    ASSUME SameProgram
    PROVE  /\ Creating' = Creating /\ CreationCalls' = CreationCalls
           /\ AnnouncingCalls' = AnnouncingCalls /\ JoinCalls' = JoinCalls
           /\ \A f : KeyCalls(f)' = KeyCalls(f)
           /\ ThreadType' = ThreadType
  BY DEF SameProgram, Creating, CreationCalls, AnnouncingCalls, JoinCalls, KeyCalls, ThreadType

LEMMA TeamMoves ==
    ASSUME ProgramTypes, ProcessTypes, Team, Running, NEW t \in Thread, Moves(t), SameProgram,
           c_tid' \in Nat, c_tid <= c_tid'
    PROVE  Team'
  <1>1. /\ Thread = 1..Len(threads) /\ Len(threads) \in Nat /\ Main \in Thread
        /\ \A u \in Thread : threads[u].my_tid \in Nat /\ threads[u].at \in Nat
    BY TeamSize DEF ThreadType
  <1>2. /\ threads' \in Seq(ThreadType) /\ Len(threads') = Len(threads) /\ Thread' = Thread /\ threads' # <<>>
    BY <1>1 DEF Moves, Thread
  <1>3. Creating' = Creating /\ CreationCalls' = CreationCalls
    BY SameCalls
  <1> DEFINE f == threads[t].fn
             y == threads[t].at
  <1>4. f \in DOMAIN prog.code /\ CodeOf(f) /\ y \in 1..Len(code[f]) /\ y \in Nat /\ (t = Main <=> f = "main")
    BY ThreadAt DEF Moves
  <1>5. /\ \A u \in Thread \ {t} : threads'[u] = threads[u]
        /\ threads'[t].fn = f /\ threads'[t].at = y + 1
        /\ threads'[t].kps = IF Op(t) \in {"instr_LOC", "instr_LOC_string"} THEN threads[t].kps + 1
                             ELSE threads[t].kps
        /\ threads'[t].my_tid = IF Op(t) = "instr_PthreadCall" THEN turn ELSE threads[t].my_tid
        /\ Op(t) = code[f][y].op /\ Op(t) \notin Creations
    BY DEF Moves, Op
  <1>6. Len(threads') = 1 + CountBelow(CreationCalls, threads'[Main].at)
    <2>1. Len(threads) = 1 + CountBelow(CreationCalls, threads[Main].at)
      BY DEF Team
    <2>2. CASE t = Main
      <3>1. y \notin CreationCalls /\ CreationCalls \in SUBSET Nat
        BY <1>4, <1>5, <2>2, CreationPlaces
      <3>2. CountBelow(CreationCalls, y + 1) = CountBelow(CreationCalls, y)
        BY <1>4, <3>1, BelowNext
      <3> QED
        BY <1>2, <1>5, <2>1, <2>2, <3>2
    <2>3. CASE t # Main
      BY <1>1, <1>2, <1>5, <2>1, <2>3
    <2> QED
      BY <2>2, <2>3
  <1>7. /\ threads'[Main].fn = "main" /\ threads'[Main].my_tid = 0
        /\ threads'[Main].at > 1 => threads'[Main].kps > 0
    <2>1. /\ threads[Main].fn = "main" /\ threads[Main].my_tid = 0
          /\ threads[Main].at > 1 => threads[Main].kps > 0
      BY DEF Team
    <2>2. CASE t = Main
      <3>1. Op(t) # "instr_PthreadCall"
        BY <1>4, <1>5, <2>2 DEF CodeOf
      <3>2. y = 1 => Op(t) = "instr_LOC"
        BY <1>4, <1>5, <2>2 DEF CodeOf
      <3>3. threads[t].kps \in Nat
        BY ThreadAt
      <3>4. y > 1 => threads[t].kps > 0
        BY <2>1, <2>2
      <3>5. threads'[t].kps > 0
        BY <1>4, <1>5, <3>2, <3>3, <3>4
      <3> QED
        BY <1>5, <2>1, <2>2, <3>1, <3>5
    <2>3. CASE t # Main
      BY <1>1, <1>5, <2>1, <2>3
    <2> QED
      BY <2>2, <2>3
  <1>8. ASSUME NEW u \in Thread PROVE Member(u)'
    <2>1. Member(u)
      BY DEF Team
    <2>2. CASE u # t
      <3>1. threads'[u] = threads[u]
        BY <1>5, <2>2
      <3>2. threads[u].my_tid <= c_tid' /\ c_tid \in Nat
        BY <1>1, <2>1 DEF Member, ProcessTypes
      <3> QED
        BY <1>3, <2>1, <3>1, <3>2 DEF Member, KeyCalls, SameProgram
    <2>3. CASE u = t
      <3>1. y + 1 <= Len(code[f]) + 1
        BY <1>4 DEF CodeOf
      <3>2. threads'[t].my_tid <= c_tid'
        <4>1. turn \in Nat /\ turn <= c_tid /\ c_tid \in Nat /\ threads[t].my_tid <= c_tid
          BY <2>1, <2>3 DEF Member, ProcessTypes
        <4> QED
          BY <1>1, <1>5, <4>1
      <3>3. ASSUME t # Main
            PROVE  threads'[t].kps = CountBelow(KeyCalls(f), y + 1)
        <4>1. Op(t) # "instr_LOC" /\ threads[t].kps = CountBelow(KeyCalls(f), y)
          BY <1>4, <1>5, <2>1, <2>3, <3>3 DEF Member, CodeOf
        <4> QED
          BY <1>4, <1>5, <4>1, KeyStep
      <3>4. t # Main => \E i \in Creating : /\ CountBelow(Creating, i) = t - 2
                                            /\ f = prog.code["main"][i].to
        BY <2>1, <2>3 DEF Member
      <3>5. y + 1 # 1
        BY <1>4
      <3> HIDE DEF f, y
      <3> QED
        BY <1>3, <1>5, <2>3, <3>1, <3>2, <3>3, <3>4, <3>5 DEF Member, KeyCalls, SameProgram
    <2> QED
      BY <2>2, <2>3
  <1> QED
    BY <1>2, <1>3, <1>6, <1>7, <1>8 DEF Team

LEMMA TeamGrows ==
    ASSUME ProgramTypes, ProcessTypes, Team, Running, NEW t \in Thread, Grows(t), SameProgram,
           c_tid' = c_tid
    PROVE  Team' /\ t = Main
  <1> DEFINE y == threads[t].at
             n == Len(threads) + 1
  <1>1. /\ Thread = 1..Len(threads) /\ Len(threads) \in Nat /\ Main \in Thread
        /\ \A u \in Thread : threads[u].my_tid \in Nat /\ threads[u].at \in Nat
    BY TeamSize DEF ThreadType
  <1>2. /\ threads' \in Seq(ThreadType) /\ Len(threads') = n /\ Thread' = 1..n /\ threads' # <<>>
    BY <1>1 DEF Grows, Thread
  <1>3. Creating' = Creating /\ CreationCalls' = CreationCalls
    BY SameCalls
  <1>4. /\ \A u \in Thread \ {t} : threads'[u] = threads[u]
        /\ threads'[t].fn = threads[t].fn /\ threads'[t].at = y + 1
        /\ threads'[t].kps = threads[t].kps /\ threads'[t].my_tid = threads[t].my_tid
        /\ threads'[n] = NewThread(About(t))
        /\ Op(t) \in Creations /\ ~Ended(t)
    BY DEF Grows
  <1>5. /\ t = Main /\ threads[t].fn = "main" /\ CodeOf("main")
        /\ y \in 1..Len(code["main"]) /\ y \in Nat \ {0} /\ y \in CreationCalls
        /\ About(t) = code["main"][y].to /\ CreationCalls \in SUBSET Nat
    <2>1. /\ CodeOf(threads[t].fn) /\ y \in 1..Len(code[threads[t].fn]) /\ y \in Nat \ {0}
          /\ t = Main <=> threads[t].fn = "main"
      BY <1>4, ThreadAt
    <2>2. threads[t].fn = "main"
      BY <1>4, <2>1 DEF CodeOf, Op
    <2> QED
      BY <1>4, <2>1, <2>2, CreationPlaces DEF Op, About
  <1>6. Len(threads) = 1 + CountBelow(CreationCalls, y)
    BY <1>5 DEF Team
  <1>7. n = 1 + CountBelow(CreationCalls, y + 1)
    <2>1. CountBelow(CreationCalls, y + 1) = CountBelow(CreationCalls, y) + 1
      BY <1>5, BelowNext
    <2>2. CountBelow(CreationCalls, y) \in Nat
      BY <1>5, BelowType
    <2> QED
      BY <1>6, <2>1, <2>2
  <1>8. threads[t].kps \in Nat /\ (y > 1 => threads[t].kps > 0) /\ threads[t].my_tid = 0
    BY <1>5, ThreadAt DEF Team
  <1>9. y > 1
    <2>1. y = 1 => code["main"][y].op = "instr_LOC"
      BY <1>5 DEF CodeOf
    <2>2. "instr_LOC" \notin Creations
      BY DEF Creations, Wrappers
    <2> QED
      BY <1>4, <1>5, <2>1, <2>2 DEF Op
  <1>10. ASSUME NEW u \in 1..n PROVE Member(u)'
    <2>1. CASE u \in Thread
      <3>1. Member(u)
        BY <2>1 DEF Team
      <3>2. CASE u # t
        <4>1. threads'[u] = threads[u]
          BY <1>4, <2>1, <3>2
        <4> QED
          BY <1>3, <3>1, <4>1 DEF Member, KeyCalls, SameProgram
      <3>3. CASE u = t
        <4>1. y + 1 <= Len(code["main"]) + 1
          BY <1>5 DEF CodeOf
        <4>2. threads[t].my_tid <= c_tid
          BY <3>1, <3>3 DEF Member
        <4> HIDE DEF y
        <4> QED
          BY <1>4, <1>5, <3>3, <4>1, <4>2 DEF Member, SameProgram
      <3> QED
        BY <3>2, <3>3
    <2>2. CASE u \notin Thread
      <3>1. u = n /\ u # Main /\ u - 2 = Len(threads) - 1
        BY <1>1, <2>2 DEF Main
      <3>2. /\ threads'[u].fn = code["main"][y].to /\ threads'[u].at = 1
            /\ threads'[u].my_tid = 0 /\ threads'[u].kps = 0
        BY <1>4, <1>5, <3>1 DEF NewThread
      <3>3. PICK i \in Creating : /\ CountBelow(Creating, i) = CountBelow(CreationCalls, y)
                                  /\ code["main"][y].to = prog.code["main"][i].to
        BY <1>5, CreationPlaces
      <3>4. CountBelow(Creating, i) = u - 2
        <4>1. CountBelow(CreationCalls, y) \in Nat
          BY <1>5, BelowType
        <4> QED
          BY <1>6, <3>1, <3>3, <4>1
      <3>5. code["main"][y].to \in DOMAIN prog.code
        BY <1>4, <1>5 DEF CodeOf, Op
      <3>6. Len(code[threads'[u].fn]) \in Nat /\ 0 <= c_tid
        BY <3>2, <3>5, CodeFacts DEF CodeOf, ProcessTypes
      <3>7. CountBelow(KeyCalls(threads'[u].fn), 1) = 0
        <4>1. CodeOf(threads'[u].fn)
          BY <3>2, <3>5, CodeFacts
        <4>2. KeyCalls(threads'[u].fn) = {z \in 1..Len(code[threads'[u].fn]) :
                                              code[threads'[u].fn][z].op \in {"instr_LOC_string"}}
          BY <4>1 DEF KeyCalls, CallsAt, CodeOf
        <4>3. KeyCalls(threads'[u].fn) \in SUBSET Nat /\ 0 \notin KeyCalls(threads'[u].fn)
          BY <4>2
        <4> QED
          BY <4>3, NoneBelowOne
      <3>8. /\ threads'[u].at <= Len(code'[threads'[u].fn]) + 1
            /\ threads'[u].my_tid <= c_tid'
        <4> DEFINE l == Len(code[threads'[u].fn])
        <4>1. l \in Nat /\ 1 <= l + 1
          BY <3>6
        <4>2. l = Len(code'[threads'[u].fn])
          BY DEF SameProgram
        <4> HIDE DEF l
        <4> QED
          BY <3>2, <3>6, <4>1, <4>2
      <3>9. threads'[u].kps = CountBelow(KeyCalls(threads'[u].fn), threads'[u].at)
        BY <3>2, <3>7
      <3>10. \E j \in Creating' : /\ CountBelow(Creating', j) = u - 2
                                  /\ threads'[u].fn = prog'.code["main"][j].to
        BY <1>3, <3>2, <3>3, <3>4 DEF SameProgram
      <3> QED
        BY <3>2, <3>8, <3>9, <3>10 DEF Member, KeyCalls, SameProgram
    <2> QED
      BY <2>1, <2>2
  <1> HIDE DEF y, n
  <1>11. Team'
    BY <1>2, <1>3, <1>4, <1>5, <1>7, <1>8, <1>9, <1>10 DEF Team
  <1> QED
    BY <1>5, <1>11

-----------------------------------------------------------------------------
(* The steps of threads, in these terms. *)
LEMMA MovesBy ==
    ASSUME ProgramTypes, ProcessTypes, Team, Running, NEW t \in Thread,
           ~Ended(t), Op(t) \notin Creations, mode' = mode,
           NEW r \in ThreadType, threads' = [threads EXCEPT ![t] = r],
           r.fn = threads[t].fn, r.at = threads[t].at + 1,
           r.kps = IF Op(t) \in {"instr_LOC", "instr_LOC_string"} THEN threads[t].kps + 1
                   ELSE threads[t].kps,
           r.my_tid = IF Op(t) = "instr_PthreadCall" THEN turn ELSE threads[t].my_tid
    PROVE  Moves(t)
  <1>1. threads \in Seq(ThreadType) /\ t \in 1..Len(threads) /\ Thread = 1..Len(threads)
    BY TeamSize DEF ProcessTypes
  <1>2. /\ threads' \in Seq(ThreadType) /\ Len(threads') = Len(threads) /\ threads'[t] = r
        /\ \A u \in Thread \ {t} : threads'[u] = threads[u]
    BY <1>1
  <1> QED
    BY <1>2 DEF Moves

(* A record keeps its type under changes of some fields.                   *)
LEMMA Changes ==
    ASSUME NEW th \in ThreadType
    PROVE  LET r == [th EXCEPT !.at = @ + 1]
               k == [th EXCEPT !.at = @ + 1, !.kps = @ + 1]
           IN  /\ r \in ThreadType /\ r.fn = th.fn /\ r.at = th.at + 1
               /\ r.kps = th.kps /\ r.my_tid = th.my_tid
               /\ k \in ThreadType /\ k.fn = th.fn /\ k.at = th.at + 1
               /\ k.kps = th.kps + 1 /\ k.my_tid = th.my_tid
  <1>1. th.at + 1 \in Nat \ {0} /\ th.kps + 1 \in Nat
    BY DEF ThreadType
  <1>2. [th EXCEPT !.at = @ + 1] \in ThreadType
    BY <1>1 DEF ThreadType
  <1>3. [th EXCEPT !.at = @ + 1, !.kps = @ + 1] \in ThreadType
    BY <1>1 DEF ThreadType
  <1> QED
    BY <1>2, <1>3 DEF ThreadType

(* A call that only takes its time. *)
LEMMA PlainMoves ==
    ASSUME ProgramTypes, ProcessTypes, Team, Running, NEW t \in Thread, ~Ended(t),
           Op(t) \in {"before_pthread_create", "pthread_join", "traceEnd"},
           mode' = mode, threads' = Go(t)
    PROVE  Moves(t)
  <1>1. Op(t) \notin Creations \cup {"instr_LOC", "instr_LOC_string", "instr_PthreadCall"}
    BY DEF Creations, Wrappers
  <1> DEFINE r == [threads[t] EXCEPT !.at = @ + 1]
  <1>2. threads[t] \in ThreadType
    BY TeamSize
  <1>3. threads' = [threads EXCEPT ![t] = r]
    BY DEF Go
  <1>4. /\ r \in ThreadType /\ r.fn = threads[t].fn /\ r.at = threads[t].at + 1
        /\ r.kps = threads[t].kps /\ r.my_tid = threads[t].my_tid
    BY <1>2, Changes
  <1> HIDE DEF r
  <1> QED
    BY <1>1, <1>3, <1>4, MovesBy

LEMMA BeforeMoves ==
    ASSUME ProgramTypes, ProcessTypes, Team, Running, NEW t \in Thread, BeforePthreadCreate(t)
    PROVE  Moves(t) /\ Op(t) = "before_pthread_create"
  <1>1. Op(t) = "before_pthread_create" /\ ~Ended(t) /\ mode' = mode /\ threads' = Go(t)
    BY DEF BeforePthreadCreate, At, Op
  <1> QED
    BY <1>1, PlainMoves

LEMMA JoinMoves ==
    ASSUME ProgramTypes, ProcessTypes, Team, Running, NEW t \in Thread, PthreadJoin(t)
    PROVE  Moves(t) /\ Op(t) = "pthread_join"
  <1>1. Op(t) = "pthread_join" /\ ~Ended(t) /\ mode' = mode /\ threads' = Go(t)
    BY DEF PthreadJoin, At, Op
  <1> QED
    BY <1>1, PlainMoves

LEMMA TraceEndMoves ==
    ASSUME ProgramTypes, ProcessTypes, Team, Running, NEW t \in Thread, CallTraceEnd(t)
    PROVE  Moves(t) /\ Op(t) = "traceEnd"
  <1>1. Op(t) = "traceEnd" /\ ~Ended(t) /\ mode' = mode /\ threads' = Go(t)
    BY DEF CallTraceEnd, At, Op
  <1> QED
    BY <1>1, PlainMoves

LEMMA MainKeyMoves ==
    ASSUME ProgramTypes, ProcessTypes, Team, Running, NEW t \in Thread, MainKeyPoint(t)
    PROVE  Moves(t) /\ Op(t) = "instr_LOC"
  <1>1. Op(t) = "instr_LOC" /\ ~Ended(t) /\ mode' = mode /\ threads' = [Go(t) EXCEPT ![t].kps = @ + 1]
    BY DEF MainKeyPoint, At, Op
  <1>2. Op(t) \notin Creations \cup {"instr_PthreadCall"}
    BY <1>1 DEF Creations, Wrappers
  <1> DEFINE r == [threads[t] EXCEPT !.at = @ + 1, !.kps = @ + 1]
  <1>3. threads[t] \in ThreadType /\ threads \in Seq(ThreadType) /\ t \in DOMAIN threads
    BY TeamSize DEF ProcessTypes, Thread
  <1>4. threads' = [threads EXCEPT ![t] = r]
    BY <1>1, <1>3 DEF Go
  <1>5. /\ r \in ThreadType /\ r.fn = threads[t].fn /\ r.at = threads[t].at + 1
        /\ r.kps = threads[t].kps + 1 /\ r.my_tid = threads[t].my_tid
    BY <1>3, Changes
  <1> HIDE DEF r
  <1> QED
    BY <1>1, <1>2, <1>4, <1>5, MovesBy

(* The slot where a row begins. *)
LEMMA RowStartType ==
    ASSUME ProcessTypes, turn # 0
    PROVE  RowStart(turn) \in Nat
  <1>1. turn - 1 \in Nat /\ num_kp \in Nat /\ ArraySize \div 10 \in Nat
    BY SizeAssumption DEF ProcessTypes
  <1>2. (turn - 1) * num_kp \in Nat /\ (turn - 1) * (ArraySize \div 10) \in Nat
    BY <1>1
  <1> QED
    BY <1>2 DEF RowStart

LEMMA RegisterMoves ==
    ASSUME ProgramTypes, ProcessTypes, Team, Running, NEW t \in Thread, Register(t), ~Refused
    PROVE  Moves(t) /\ Op(t) = "instr_PthreadCall"
  <1>1. /\ Op(t) = "instr_PthreadCall" /\ ~Ended(t) /\ mode' = mode /\ turn # 0
        /\ threads' = [Go(t) EXCEPT ![t].my_tid = turn,
                                   ![t].orig = RowStart(turn), ![t].idx = RowStart(turn)]
    BY DEF Register, At, Op
  <1>2. Op(t) \notin Creations \cup {"instr_LOC", "instr_LOC_string"}
    BY <1>1 DEF Creations, Wrappers
  <1> DEFINE s == RowStart(turn)
             a == [threads[t] EXCEPT !.at = @ + 1]
             r == [a EXCEPT !.my_tid = turn, !.orig = s, !.idx = s]
  <1>3. threads[t] \in ThreadType /\ threads \in Seq(ThreadType) /\ t \in DOMAIN threads
    BY TeamSize DEF ProcessTypes, Thread
  <1>4. threads' = [threads EXCEPT ![t] = r]
    BY <1>1, <1>3 DEF Go
  <1>5. /\ a \in ThreadType /\ a.fn = threads[t].fn /\ a.at = threads[t].at + 1
        /\ a.kps = threads[t].kps
    BY <1>3, Changes
  <1>6. s \in Nat /\ turn \in Nat
    BY <1>1, RowStartType DEF ProcessTypes
  <1> HIDE DEF s, a
  <1>7. r \in ThreadType /\ r.fn = a.fn /\ r.at = a.at /\ r.kps = a.kps /\ r.my_tid = turn
    BY <1>5, <1>6 DEF ThreadType
  <1> HIDE DEF r
  <1> QED
    BY <1>1, <1>2, <1>4, <1>5, <1>7, MovesBy

LEMMA KeyMoves ==
    ASSUME ProgramTypes, ProcessTypes, Team, Running, NEW t \in Thread, KeyPoint(t)
    PROVE  Moves(t) /\ Op(t) = "instr_LOC_string"
  <1> DEFINE k == [threads[t] EXCEPT !.at = @ + 1, !.kps = @ + 1]
             th == threads[t]
             spent == IF mode = "dbds" /\ th.idx \in Slots THEN kpYield[th.idx] ELSE 0
             r == [k EXCEPT !.idx = Advance(th), !.yields = Append(th.yields, spent)]
  <1>1. Op(t) = "instr_LOC_string" /\ ~Ended(t) /\ mode' = mode
    BY DEF KeyPoint, At, Op
  <1>2. \/ t = Main /\ threads' = [Go(t) EXCEPT ![t].kps = @ + 1]
        \/ t # Main /\ threads' = [Go(t) EXCEPT ![t].kps = @ + 1, ![t].idx = Advance(th),
                                                ![t].yields = Append(@, spent)]
    BY DEF KeyPoint
  <1>3. Op(t) \notin Creations \cup {"instr_PthreadCall"}
    BY <1>1 DEF Creations, Wrappers
  <1>4. threads[t] \in ThreadType /\ threads \in Seq(ThreadType) /\ t \in DOMAIN threads
    BY TeamSize DEF ProcessTypes, Thread
  <1>5. /\ k \in ThreadType /\ k.fn = threads[t].fn /\ k.at = threads[t].at + 1
        /\ k.kps = threads[t].kps + 1 /\ k.my_tid = threads[t].my_tid
    BY <1>4, Changes
  <1>6. CASE t = Main
    <2>1. threads' = [threads EXCEPT ![t] = k]
      <3>1. threads' = [Go(t) EXCEPT ![t].kps = @ + 1]
        BY <1>2, <1>6
      <3> QED
        BY <1>4, <3>1 DEF Go
    <2> HIDE DEF k
    <2> QED
      BY <1>1, <1>3, <1>5, <2>1, MovesBy
  <1>7. CASE t # Main
    <2>1. threads' = [threads EXCEPT ![t] = r]
      <3> HIDE DEF spent
      <3>1. threads' = [Go(t) EXCEPT ![t].kps = @ + 1, ![t].idx = Advance(th),
                                     ![t].yields = Append(@, spent)]
        BY <1>2, <1>7
      <3> QED
        BY <1>4, <3>1 DEF Go
    <2>2. Advance(th) \in Nat
      <3>1. th.idx \in Nat /\ th.orig \in Nat /\ num_kp \in Nat /\ num_td \in Nat
        BY <1>4 DEF ThreadType, ProcessTypes
      <3>2. num_td * num_kp \in Nat
        BY <3>1
      <3> HIDE DEF th
      <3> QED
        BY <3>1, <3>2 DEF Advance
    <2>3. spent \in Nat
      BY DEF ProcessTypes
    <2>4. Append(th.yields, spent) \in Seq(Nat)
      <3>1. th.yields \in Seq(Nat)
        BY <1>4 DEF ThreadType
      <3> HIDE DEF spent, th
      <3> QED
        BY <2>3, <3>1
    <2> HIDE DEF k, th, spent
    <2>5. r \in ThreadType /\ r.fn = k.fn /\ r.at = k.at /\ r.kps = k.kps /\ r.my_tid = k.my_tid
      BY <1>5, <2>2, <2>4 DEF ThreadType
    <2> HIDE DEF r
    <2> QED
      BY <1>1, <1>3, <1>5, <2>1, <2>5, MovesBy
  <1> QED
    BY <1>6, <1>7

LEMMA CreateGrows ==
    ASSUME ProgramTypes, ProcessTypes, Team, Running, NEW t \in Thread, PthreadCreate(t)
    PROVE  Grows(t)
  <1> DEFINE r == [threads[t] EXCEPT !.at = @ + 1]
             new == NewThread(About(t))
             g == [threads EXCEPT ![t] = r]
  <1>1. /\ Op(t) \in Creations /\ ~Ended(t) /\ mode' = mode
        /\ threads' = Append(Go(t), new)
    BY DEF PthreadCreate, Op
  <1>2. threads[t] \in ThreadType /\ threads \in Seq(ThreadType) /\ t \in 1..Len(threads) /\ Thread = 1..Len(threads)
    BY TeamSize DEF ProcessTypes
  <1>3. Go(t) = g
    BY DEF Go
  <1>4. /\ r \in ThreadType /\ r.fn = threads[t].fn /\ r.at = threads[t].at + 1
        /\ r.kps = threads[t].kps /\ r.my_tid = threads[t].my_tid
    BY <1>2, Changes
  <1>5. new \in ThreadType
    <2>1. About(t) \in DOMAIN prog.code
      <3>1. CodeOf(threads[t].fn) /\ threads[t].at \in 1..Len(code[threads[t].fn])
        BY <1>1, ThreadAt
      <3> QED
        BY <1>1, <3>1 DEF CodeOf, Op, About
    <2> QED
      BY <2>1 DEF NewThread, ThreadType
  <1> HIDE DEF new, r
  <1>6. /\ g \in Seq(ThreadType) /\ Len(g) = Len(threads) /\ g[t] = r
        /\ \A u \in Thread \ {t} : g[u] = threads[u]
    BY <1>2, <1>4
  <1> HIDE DEF g
  <1>7. /\ Append(g, new) \in Seq(ThreadType) /\ Len(Append(g, new)) = Len(g) + 1
        /\ \A u \in 1..Len(g) : Append(g, new)[u] = g[u]
        /\ Append(g, new)[Len(g) + 1] = new
    BY <1>5, <1>6
  <1> QED
    BY <1>1, <1>2, <1>3, <1>4, <1>6, <1>7 DEF Grows, new

-----------------------------------------------------------------------------
(* Types in the steps of threads.                                          *)
LEMMA ProcessGoesOn ==
    ASSUME ProcessTypes, SameProgram, mode' = mode, threads' \in Seq(ThreadType), Running,
           UNCHANGED <<loaded, tids>>, kpYield' \in [Slots -> Nat],
           c_tid' \in Nat, turn' \in 0..c_tid'
    PROVE  ProcessTypes' /\ Running'
  <1>1. Running'
    BY DEF Running
  <1>2. ThreadType' = ThreadType
    BY SameCalls
  <1> QED
    BY <1>1, <1>2 DEF ProcessTypes, loaded

LEMMA ProcessEnds ==
    ASSUME ProcessTypes, SameProgram, Ends, UNCHANGED <<loaded, turn, c_tid, tids>>,
           kpYield' = [s \in Slots |-> 0]
    PROVE  ProcessTypes' /\ ~Running' /\ Team'
  <1>1. mode' \in {"returned", "refused"} /\ threads' = <<>>
    BY DEF Ends
  <1>2. ~Running'
    BY <1>1 DEF Running
  <1>3. threads' \in Seq(ThreadType') /\ kpYield' \in [Slots -> Nat]
    BY <1>1
  <1> QED
    BY <1>1, <1>2, <1>3 DEF ProcessTypes, Team, loaded

LEMMA KeyPointWrites ==
    ASSUME ProgramTypes, DriverTypes, ProcessTypes, Team, Running, NEW t \in Thread, KeyPoint(t)
    PROVE  /\ kpYield' \in [Slots -> Nat] /\ shm' \in ShmType
           /\ shm'.num = shm.num /\ shm'.N = shm.N /\ shm'.M = shm.M
  <1>1. kpYield \in [Slots -> Nat] /\ shm \in ShmType
    BY DEF ProcessTypes, DriverTypes
  <1> DEFINE th == threads[t]
             line == code[th.fn][th.at].line
             loc == [s \in Slots |-> IF s = th.idx THEN line ELSE shm.loc[s]]
  <1>2. \/ UNCHANGED <<shm, kpYield>>
        \/ /\ shm' = [shm EXCEPT !.loc = loc]
           /\ kpYield' = [s \in Slots |-> IF s = th.idx /\ mode = "dbds" THEN 0 ELSE kpYield[s]]
    BY DEF KeyPoint
  <1>3. line \in Nat
    <2>1. CodeOf(th.fn) /\ th.at \in 1..Len(code[th.fn])
      BY ThreadAt DEF KeyPoint, At
    <2>2. code[th.fn][th.at] \in Instruction
      BY <2>1 DEF CodeOf
    <2> QED
      BY <2>2 DEF Instruction
  <1>4. loc \in [Slots -> Nat]
    <2> HIDE DEF line
    <2> QED
      BY <1>1, <1>3 DEF ShmType
  <1> HIDE DEF loc
  <1>5. CASE UNCHANGED <<shm, kpYield>>
    BY <1>1, <1>5
  <1>6. CASE /\ shm' = [shm EXCEPT !.loc = loc]
             /\ kpYield' = [s \in Slots |-> IF s = th.idx /\ mode = "dbds" THEN 0 ELSE kpYield[s]]
    <2>1. kpYield' \in [Slots -> Nat]
      BY <1>1, <1>6
    <2>2. shm' \in ShmType /\ shm'.num = shm.num /\ shm'.N = shm.N /\ shm'.M = shm.M
      BY <1>1, <1>4, <1>6 DEF ShmType
    <2> QED
      BY <2>1, <2>2
  <1> QED
    BY <1>2, <1>5, <1>6

(* What traceEnd leaves behind, in the dry run with the time it took. *)
LEMMA TraceEndWrites ==
    ASSUME ProgramTypes, DriverTypes, ProcessTypes, Team, Running, threads[Main].at > 1,
           NEW intact \in SUBSET Thread, TraceEnd(intact)
    PROVE  /\ shm' \in ShmType
           /\ shm'.num = Summary(intact).num /\ shm'.N = Summary(intact).N /\ shm'.M = Summary(intact).M
  <1>1. Summary(intact) \in ShmType
    BY SummaryType
  <1>2. CASE mode = "dry"
    <2>1. PICK time \in Times : shm' = [Summary(intact) EXCEPT !.time = time]
      BY <1>2 DEF TraceEnd
    <2>2. time \in Nat
      BY TimesAssumption
    <2> QED
      BY <1>1, <2>1, <2>2 DEF ShmType
  <1>3. CASE mode # "dry"
    BY <1>1, <1>3 DEF TraceEnd
  <1> QED
    BY <1>2, <1>3

(* main has begun when something may end the process. *)
LEMMA MainBegan ==
    ASSUME ProgramTypes, ProcessTypes, Team, Running, NEW t \in Thread,
           \/ t # Main
           \/ Ended(t)
           \/ ~Ended(t) /\ Op(t) # "instr_LOC"
    PROVE  threads[Main].at > 1
  <1>1. /\ Len(threads) \in Nat /\ Thread = 1..Len(threads) /\ Main \in Thread
    BY TeamSize
  <1>2. /\ threads[Main].at \in Nat \ {0} /\ threads[Main].fn = "main" /\ CodeOf("main")
    BY <1>1, ThreadAt
  <1>3. SUFFICES ASSUME threads[Main].at = 1 PROVE FALSE
    BY <1>2
  <1>4. Len(code["main"]) >= 1 /\ Len(code["main"]) \in Nat /\ code["main"][1].op = "instr_LOC"
    BY <1>2 DEF CodeOf
  <1>5. ~Ended(Main) /\ Op(Main) = "instr_LOC"
    BY <1>2, <1>3, <1>4 DEF Ended, Op
  <1>6. CountBelow(CreationCalls, 1) = 0
    <2>1. CreationCalls \in SUBSET Nat /\ 0 \notin CreationCalls
      BY CreationPlaces
    <2> QED
      BY <2>1, NoneBelowOne
  <1>7. Len(threads) = 1
    BY <1>3, <1>6 DEF Team
  <1> QED
    BY <1>1, <1>5, <1>7 DEF Main

Base == ProgramTypes /\ DriverTypes /\ ProcessTypes /\ Team /\ FewThreads

(* What the driver needs to know of a step of the process. *)
LEMMA DriverStays ==
    ASSUME ProgramTypes, DriverTypes, FewThreads, SameProgram, UNCHANGED <<phase, driver, loaded>>,
           shm' \in ShmType, shm'.N \in 0..Cardinality(Creating), Running
    PROVE  ProgramTypes' /\ DriverTypes' /\ FewThreads'
  <1>1. ShmType' = ShmType
    BY DEF ShmType
  <1>2. Creating' = Creating
    BY SameCalls
  <1>3. DriverTypes'
    BY <1>1 DEF DriverTypes, driver
  <1>4. ProgramTypes'
    BY DEF ProgramTypes, SameProgram
  <1>5. FewThreads'
    BY <1>2 DEF FewThreads, driver, loaded
  <1> QED
    BY <1>3, <1>4, <1>5

LEMMA ExecuteRuns ==
    ASSUME NEW t \in Thread, Execute(t)
    PROVE  Running /\ SameProgram /\ UNCHANGED <<phase, driver>>
  <1>1. UNCHANGED <<prog, iterPeriod, phase, driver>>
    BY DEF Execute
  <1>2. ThreadStep(t)
    BY DEF Execute
  <1>3. Running /\ code' = code
    BY <1>2 DEF ThreadStep, BeforePthreadCreate, PthreadCreate, Register, MainKeyPoint, KeyPoint,
                PthreadJoin, CallTraceEnd, Exit, MainReturns, At, End
  <1> QED
    BY <1>1, <1>3 DEF SameProgram

LEMMA ExecuteBase ==
    ASSUME Base, NEW t \in Thread, Execute(t)
    PROVE  Base'
  <1>1. Running /\ SameProgram /\ UNCHANGED <<phase, driver>>
    BY ExecuteRuns
  <1>2. ProgramTypes /\ DriverTypes /\ ProcessTypes /\ Team /\ FewThreads /\ ThreadStep(t)
    BY DEF Base, Execute
  <1>3. /\ kpYield \in [Slots -> Nat] /\ c_tid \in Nat /\ turn \in 0..c_tid
        /\ shm \in ShmType /\ shm.N \in 0..Cardinality(Creating)
    BY <1>2 DEF ProcessTypes, DriverTypes, FewThreads
  <1>4. ASSUME Moves(t), UNCHANGED <<loaded, tids>>, kpYield' \in [Slots -> Nat], c_tid' \in Nat,
               c_tid <= c_tid', turn' \in 0..c_tid', shm' \in ShmType, shm'.N \in 0..Cardinality(Creating)
        PROVE  Base'
    <2>1. mode' = mode /\ threads' \in Seq(ThreadType)
      BY <1>4 DEF Moves
    <2>2. ProcessTypes'
      BY <1>1, <1>2, <1>4, <2>1, ProcessGoesOn
    <2>3. Team'
      BY <1>1, <1>2, <1>4, TeamMoves
    <2> QED
      BY <1>1, <1>2, <1>4, <2>2, <2>3, DriverStays DEF Base
  <1>5. ASSUME Ends, UNCHANGED <<loaded, turn, c_tid, tids>>, kpYield' = [s \in Slots |-> 0],
               shm' \in ShmType, shm'.N \in 0..Cardinality(Creating)
        PROVE  Base'
    <2>1. ProcessTypes' /\ Team'
      BY <1>1, <1>2, <1>5, ProcessEnds
    <2> QED
      BY <1>1, <1>2, <1>5, <2>1, DriverStays DEF Base
  <1>6. ASSUME NEW intact \in SUBSET Thread, TraceEnd(intact), threads[Main].at > 1
        PROVE  shm' \in ShmType /\ shm'.N \in 0..Cardinality(Creating)
    BY <1>1, <1>2, <1>6, TraceEndWrites, SummaryType
  <1>7. CASE BeforePthreadCreate(t)
    <2>1. Moves(t)
      BY <1>1, <1>2, <1>7, BeforeMoves
    <2>2. /\ c_tid' = c_tid + 1 /\ turn' = c_tid'
          /\ UNCHANGED <<shm, loaded, kpYield, tids>>
      BY <1>7 DEF BeforePthreadCreate
    <2> QED
      BY <1>3, <1>4, <2>1, <2>2
  <1>8. CASE PthreadCreate(t)
    <2>1. Grows(t) /\ UNCHANGED <<shm, loaded, kpYield, turn, c_tid, tids>>
      BY <1>1, <1>2, <1>8, CreateGrows DEF PthreadCreate
    <2>2. mode' = mode /\ threads' \in Seq(ThreadType)
      BY <2>1 DEF Grows
    <2>3. ProcessTypes'
      BY <1>1, <1>2, <1>3, <2>1, <2>2, ProcessGoesOn
    <2>4. Team'
      BY <1>1, <1>2, <2>1, TeamGrows
    <2> QED
      BY <1>1, <1>2, <1>3, <2>1, <2>3, <2>4, DriverStays DEF Base
  <1>9. CASE Register(t)
    <2>1. CASE Refused
      <3>1. Destructor /\ End("refused") /\ ~Ended(t) /\ Op(t) = "instr_PthreadCall"
        BY <1>9, <2>1 DEF Register, At, Op
      <3>2. PICK intact \in SUBSET Thread : TraceEnd(intact)
        BY <3>1 DEF Destructor
      <3>3. threads[Main].at > 1
        BY <1>1, <1>2, <3>1, MainBegan
      <3>4. Ends /\ UNCHANGED <<loaded, turn, c_tid, tids>> /\ kpYield' = [s \in Slots |-> 0]
        BY <3>1 DEF End, Ends
      <3> QED
        BY <1>5, <1>6, <3>2, <3>3, <3>4
    <2>2. CASE ~Refused
      <3>1. Moves(t)
        BY <1>1, <1>2, <1>9, <2>2, RegisterMoves
      <3>2. turn' = 0 /\ UNCHANGED <<shm, kpYield, loaded, c_tid, tids>>
        BY <1>9, <2>2 DEF Register
      <3> QED
        BY <1>3, <1>4, <3>1, <3>2
    <2> QED
      BY <2>1, <2>2
  <1>10. CASE MainKeyPoint(t)
    <2>1. Moves(t) /\ UNCHANGED <<shm, loaded, kpYield, turn, c_tid, tids>>
      BY <1>1, <1>2, <1>10, MainKeyMoves DEF MainKeyPoint
    <2> QED
      BY <1>3, <1>4, <2>1
  <1>11. CASE KeyPoint(t)
    <2>1. Moves(t) /\ UNCHANGED <<loaded, turn, c_tid, tids>>
      BY <1>1, <1>2, <1>11, KeyMoves DEF KeyPoint
    <2>2. kpYield' \in [Slots -> Nat] /\ shm' \in ShmType /\ shm'.N = shm.N
      BY <1>1, <1>2, <1>11, KeyPointWrites
    <2> QED
      BY <1>3, <1>4, <2>1, <2>2
  <1>12. CASE PthreadJoin(t)
    <2>1. Moves(t) /\ UNCHANGED <<shm, loaded, kpYield, turn, c_tid, tids>>
      BY <1>1, <1>2, <1>12, JoinMoves DEF PthreadJoin
    <2> QED
      BY <1>3, <1>4, <2>1
  <1>13. CASE CallTraceEnd(t)
    <2>1. Moves(t) /\ Op(t) = "traceEnd" /\ TraceEnd(Thread) /\ UNCHANGED <<loaded, kpYield, turn, c_tid, tids>>
      BY <1>1, <1>2, <1>13, TraceEndMoves DEF CallTraceEnd
    <2>2. threads[Main].at > 1
      BY <1>1, <1>2, <2>1, MainBegan DEF Moves
    <2> QED
      BY <1>3, <1>4, <1>6, <2>1, <2>2
  <1>14. CASE Exit(t)
    <2>1. Ends /\ UNCHANGED <<shm, loaded, turn, c_tid, tids>> /\ kpYield' = [s \in Slots |-> 0]
      BY <1>14 DEF Exit, End, Ends
    <2> QED
      BY <1>3, <1>5, <2>1
  <1>15. CASE t = Main /\ MainReturns
    <2>1. Destructor /\ End("returned") /\ Ended(t)
      BY <1>15 DEF MainReturns
    <2>2. PICK intact \in SUBSET Thread : TraceEnd(intact)
      BY <2>1 DEF Destructor
    <2>3. threads[Main].at > 1
      BY <1>1, <1>2, <2>1, MainBegan
    <2>4. Ends /\ UNCHANGED <<loaded, turn, c_tid, tids>> /\ kpYield' = [s \in Slots |-> 0]
      BY <2>1 DEF End, Ends
    <2> QED
      BY <1>5, <1>6, <2>2, <2>3, <2>4
  <1> QED
    BY <1>2, <1>7, <1>8, <1>9, <1>10, <1>11, <1>12, <1>13, <1>14, <1>15 DEF ThreadStep

-----------------------------------------------------------------------------
(* The steps of the driver.                                                *)
LEMMA NoneBelow ==
    ASSUME ProgramTypes, Running \/ phase # "failed", NEW f \in DOMAIN prog.code
    PROVE  CountBelow(KeyCalls(f), 1) = 0 /\ CountBelow(CreationCalls, 1) = 0
  <1>1. CodeOf(f) /\ CreationCalls \in SUBSET Nat /\ 0 \notin CreationCalls
    BY CodeFacts, CreationPlaces
  <1>2. KeyCalls(f) = {z \in 1..Len(code[f]) : code[f][z].op \in {"instr_LOC_string"}}
    BY <1>1 DEF KeyCalls, CallsAt, CodeOf
  <1>3. KeyCalls(f) \in SUBSET Nat /\ 0 \notin KeyCalls(f)
    BY <1>2
  <1> QED
    BY <1>1, <1>3, NoneBelowOne

(* traceBegin leaves main alone, and loads what the driver has written. *)
LEMMA ProcessBegins ==
    ASSUME Base, NEW m \in {"dry", "dbds"}, TraceBegin(m), phase # "failed", prog' = prog, iterPeriod' = iterPeriod
    PROVE  /\ ProcessTypes' /\ Team' /\ Running' /\ SameProgram
           /\ shm' \in ShmType /\ shm'.N = shm.N /\ num_td' \in {num_td, shm.N}
  <1>1. ProgramTypes /\ DriverTypes /\ ProcessTypes /\ shm \in ShmType
    BY DEF Base, DriverTypes
  <1>2. /\ mode' = m /\ turn' = 0 /\ c_tid' = 0 /\ tids' \in Tids /\ code' = code
        /\ threads' = <<NewThread("main")>>
        /\ shm' = [shm EXCEPT !.num = [r \in Rows |-> 0], !.loc = [s \in Slots |-> NoLine]]
        /\ IF m = "dbds"
           THEN /\ num_td' = shm.N /\ num_kp' = shm.M /\ DBDSruntime' = shm.time
                /\ kpYield' = [s \in Slots |-> IF s < shm.N * shm.M THEN shm.kp[s] ELSE 0]
           ELSE UNCHANGED <<loaded, kpYield>>
    BY DEF TraceBegin
  <1>3. SameProgram /\ Running'
    BY <1>2 DEF SameProgram, Running
  <1>4. shm' \in ShmType /\ shm'.N = shm.N
    <2>1. [r \in Rows |-> 0] \in [Rows -> Nat] /\ [s \in Slots |-> NoLine] \in [Slots -> Nat]
      BY DEF NoLine
    <2> QED
      BY <1>1, <1>2, <2>1 DEF ShmType
  <1>5. /\ num_td' \in {num_td, shm.N} /\ num_td' \in Nat /\ num_kp' \in Nat /\ DBDSruntime' \in Nat
        /\ kpYield' \in [Slots -> Nat]
    <2>1. CASE m = "dbds"
      <3>1. shm.N \in Nat /\ shm.M \in Nat /\ shm.time \in Nat /\ shm.kp \in [Slots -> Nat]
        BY <1>1 DEF ShmType
      <3>2. [s \in Slots |-> IF s < shm.N * shm.M THEN shm.kp[s] ELSE 0] \in [Slots -> Nat]
        BY <3>1
      <3> QED
        BY <1>2, <2>1, <3>1, <3>2
    <2>2. CASE m # "dbds"
      BY <1>1, <1>2, <2>2 DEF ProcessTypes, loaded
    <2> QED
      BY <2>1, <2>2
  <1>6. "main" \in DOMAIN prog.code /\ CodeOf("main")
    BY <1>1, ProgramFacts, MainIsFunction, CodeFacts
  <1>7. NewThread("main") \in ThreadType
    BY <1>6 DEF NewThread, ThreadType
  <1>8. threads' \in Seq(ThreadType) /\ Len(threads') = 1 /\ threads'[1] = NewThread("main")
        /\ Thread' = {1} /\ threads' # <<>>
    BY <1>2, <1>7 DEF Thread
  <1>9. ProcessTypes'
    <2>1. ThreadType' = ThreadType
      BY <1>3, SameCalls
    <2> QED
      BY <1>2, <1>3, <1>5, <1>8, <2>1 DEF ProcessTypes
  <1>10. /\ threads'[Main].fn = "main" /\ threads'[Main].at = 1
         /\ threads'[Main].my_tid = 0 /\ threads'[Main].kps = 0
    BY <1>8 DEF NewThread, Main
  <1>11. Member(1)'
    <2>1. 1 <= Len(code["main"]) + 1 /\ code' = code /\ c_tid' = 0
      BY <1>2, <1>6 DEF CodeOf
    <2> QED
      BY <1>10, <2>1 DEF Member, Main
  <1>12. Team'
    <2>1. CreationCalls' = CreationCalls /\ CountBelow(CreationCalls, 1) = 0
      BY <1>1, <1>3, <1>6, SameCalls, NoneBelow
    <2> QED
      BY <1>8, <1>10, <1>11, <2>1 DEF Team
  <1> QED
    BY <1>3, <1>4, <1>5, <1>9, <1>12

LEMMA ZerosType ==
    ASSUME NEW num, NEW n
    PROVE  Zeros(num, n) \in Nat
  <1>1. IsFiniteSet(Rows)
    BY SizeAssumption, FS_Interval DEF Rows
  <1>2. IsFiniteSet({r \in Rows : r < n /\ num[r] = 0})
    BY <1>1, FS_Subset
  <1> QED
    BY <1>2, FS_CardinalityType DEF Zeros

LEMMA LessOf ==
    ASSUME NEW a \in Nat, NEW b \in Nat
    PROVE  /\ Min({a, b}) \in {a, b} /\ Min({a, b}) <= a /\ Min({a, b}) <= b
           /\ Max({a, b}) \in {a, b} /\ a <= Max({a, b}) /\ b <= Max({a, b})
  <1>1. {a, b} \in SUBSET Nat /\ {a, b} # {} /\ {a, b} \in SUBSET (0..(a + b)) /\ a + b \in Nat
    OBVIOUS
  <1>2. Min({a, b}) \in {a, b} /\ \A x \in {a, b} : Min({a, b}) <= x
    BY <1>1, MinOfSet
  <1>3. Max({a, b}) \in {a, b} /\ \A x \in {a, b} : x <= Max({a, b})
    BY <1>1, MaxOfSet
  <1> QED
    BY <1>2, <1>3

LEMMA ZeroNumType ==
    ASSUME NEW num, NEW most, NEW n
    PROVE  ZeroNum(num, most, n) \in Nat
  <1> DEFINE Round(z) == Min({Zeros(num, n + z), Zeros(most, n + z)})
  <1>1. \A z : Round(z) \in Nat
    BY ZerosType, LessOf
  <1>2. ZeroNum(num, most, n) = IF \A r \in Rows : r < n => num[r] = 0 THEN 0
                                ELSE Round(Round(Round(0)))
    BY DEF ZeroNum
  <1> HIDE DEF Round
  <1> QED
    BY <1>1, <1>2

LEMMA LongerType ==
    ASSUME NEW num \in [Rows -> Nat], NEW most \in [Rows -> Nat], NEW n
    PROVE  Longer(num, most, n) \in [Rows -> Nat]
  BY DEF Longer

LEMMA DivBelow ==
    ASSUME NEW s \in Nat, NEW n \in Nat, NEW m \in Nat, m > 0, s < n * m
    PROVE  s % m \in 0..(m - 1) /\ s \div m \in Nat /\ s \div m < n
  <1>1. s % m \in 0..(m - 1)
    OBVIOUS
  <1>2. s \div m \in Nat
    OBVIOUS
  <1>3. s \div m < n
    OBVIOUS
  <1> QED
    BY <1>1, <1>2, <1>3

LEMMA WrittenType ==
    ASSUME NEW n \in Nat, NEW m \in Nat, NEW rows \in [1..n -> [1..m -> Nat]], shm \in ShmType
    PROVE  Written(rows, m) \in [Slots -> Nat]
  <1>1. Len(rows) = n
    OBVIOUS
  <1>2. shm.kp \in [Slots -> Nat]
    BY DEF ShmType
  <1>3. ASSUME NEW s \in Slots, s < n * m
        PROVE  rows[(s \div m) + 1][(s % m) + 1] \in Nat
    <2>1. s \in Nat
      BY SizeAssumption DEF Slots
    <2>2. m > 0
      <3>1. m = 0 => n * m = 0
        OBVIOUS
      <3> QED
        BY <1>3, <2>1, <3>1
    <2>3. s % m \in 0..(m - 1) /\ s \div m \in Nat /\ s \div m < n
      BY <1>3, <2>1, <2>2, DivBelow
    <2> DEFINE q == s \div m
               r == s % m
    <2>4. q + 1 \in 1..n /\ r + 1 \in 1..m
      <3>1. q \in Nat /\ q < n /\ r \in 0..(m - 1)
        BY <2>3
      <3> HIDE DEF q, r
      <3> QED
        BY <3>1
    <2> HIDE DEF q, r
    <2>5. rows[q + 1] \in [1..m -> Nat]
      BY <2>4
    <2>6. rows[q + 1][r + 1] \in Nat
      BY <2>4, <2>5
    <2> QED
      BY <2>6 DEF q, r
  <1>4. \A s \in Slots : (IF s < Len(rows) * m THEN rows[(s \div m) + 1][(s % m) + 1] ELSE shm.kp[s]) \in Nat
    BY <1>1, <1>2, <1>3
  <1> QED
    BY <1>4 DEF Written

LEMMA ZeroPatternType ==
    ASSUME NEW n, NEW rows \in Nat, NEW m \in Nat
    PROVE  ZeroPattern(n, rows, m) \in [1..rows -> [1..m -> Nat]]
  <1>1. \A r \in 1..rows : \A k \in 1..m : (IF k = 1 /\ n <= 20 THEN r - 1 ELSE 0) \in Nat
    OBVIOUS
  <1> QED
    BY <1>1 DEF ZeroPattern

LEMMA FilledType ==
    ASSUME NEW n \in Nat, NEW kps, DOMAIN kps = 0..(n - 1), NEW p \in Nat \ {0}, NEW s \in Mixed(kps, p),
           NEW m \in Nat, \A t \in 0..(n - 1) : kps[t] \in Nat
    PROVE  Filled(kps, YieldPattern(kps, s), m) \in [1..n -> [1..m -> Nat]]
  <1> DEFINE y == YieldPattern(kps, s)
  <1>1. \A t \in DOMAIN kps : \A k \in 1..kps[t] : y[t][k] \in Nat
    <2> TAKE t \in DOMAIN kps
    <2> TAKE k \in 1..kps[t]
    <2>1. y[t][k] = Cardinality({j \in DOMAIN s : Upto(s, t, j) = k - 1})
      BY DEF YieldPattern
    <2>2. IsFiniteSet(DOMAIN s)
      BY MixedLength, FS_Interval
    <2>3. IsFiniteSet({j \in DOMAIN s : Upto(s, t, j) = k - 1})
      BY <2>2, FS_Subset
    <2> QED
      BY <2>1, <2>3, FS_CardinalityType
  <1> HIDE DEF y
  <1>2. Cardinality(DOMAIN kps) = n
    <2>1. Cardinality(0..(n - 1)) = IF 0 > n - 1 THEN 0 ELSE n - 1 - 0 + 1
      BY FS_Interval
    <2> QED
      BY <2>1
  <1>3. ASSUME NEW r \in 1..n, NEW k \in 1..m
        PROVE  (IF k <= kps[r - 1] THEN y[r - 1][k] ELSE 0) \in Nat
    <2>1. r - 1 \in DOMAIN kps /\ kps[r - 1] \in Nat
      OBVIOUS
    <2>2. k <= kps[r - 1] => k \in 1..kps[r - 1]
      BY <2>1
    <2> QED
      BY <1>1, <2>1, <2>2
  <1> QED
    BY <1>2, <1>3 DEF Filled, y

(* What the driver does before, between and after the executions. *)
LEMMA InitBase == ASSUME Init PROVE Base
  <1>1. PICK s \in Sessions : prog = s.prog /\ iterPeriod = s.periods
    BY DEF Init
  <1>2. /\ mode = "none" /\ threads = <<>> /\ tids \in Tids /\ c_tid = 0 /\ turn = 0
        /\ num_td = 0 /\ num_kp = 0 /\ DBDSruntime = 0 /\ kpYield = [x \in Slots |-> 0]
        /\ phase = IF Compiles(prog) THEN "dry" ELSE "failed"
        /\ code = IF Compiles(prog) THEN Instrument(prog) ELSE <<>>
        /\ N = 0 /\ M = 0 /\ zero_in_KP = 0 /\ kpMaxNumArray = NoCounts /\ returnNormal = 0
        /\ shm = [time |-> 0, N |-> 0, M |-> 0, num |-> NoCounts,
                  kp |-> [x \in Slots |-> 0], loc |-> [x \in Slots |-> NoLine]]
    BY DEF Init
  <1>3. ~Running
    BY <1>2 DEF Running
  <1>4. ProgramTypes
    BY <1>1, <1>2, <1>3 DEF ProgramTypes
  <1>5. NoCounts \in [Rows -> Nat] /\ [x \in Slots |-> 0] \in [Slots -> Nat] /\ [x \in Slots |-> NoLine] \in [Slots -> Nat]
    BY DEF NoCounts, NoLine
  <1>6. shm \in ShmType
    BY <1>2, <1>5 DEF ShmType
  <1>7. DriverTypes
    BY <1>2, <1>5, <1>6 DEF DriverTypes
  <1>8. ProcessTypes
    BY <1>2, <1>3, <1>5 DEF ProcessTypes
  <1>9. FewThreads
    BY <1>2, <1>4, ProgramFacts DEF FewThreads
  <1> QED
    BY <1>3, <1>4, <1>7, <1>8, <1>9 DEF Base, Team

LEMMA BeginBase ==
    ASSUME Base, NEW m \in {"dry", "dbds"}, TraceBegin(m), phase # "failed",
           UNCHANGED <<prog, iterPeriod, driver>>,
           phase' \in {"set up", "learn", "testing"}
    PROVE  Base'
  <1>1. /\ ProcessTypes' /\ Team' /\ Running' /\ SameProgram
        /\ shm' \in ShmType /\ shm'.N = shm.N /\ num_td' \in {num_td, shm.N}
    BY ProcessBegins
  <1>2. ProgramTypes /\ DriverTypes /\ FewThreads /\ ShmType' = ShmType
    BY DEF Base, ShmType
  <1>3. ProgramTypes'
    BY <1>1, <1>2 DEF ProgramTypes, SameProgram
  <1>4. DriverTypes'
    BY <1>1, <1>2 DEF DriverTypes, driver
  <1>5. FewThreads'
    BY <1>1, <1>2, SameCalls DEF FewThreads, driver
  <1> QED
    BY <1>1, <1>3, <1>4, <1>5 DEF Base

(* Steps in which the process only waits, or there is none. *)
LEMMA QuietBase ==
    ASSUME Base, UNCHANGED <<prog, iterPeriod, process>>, phase # "failed",
           phase' \in {"default", "test", "start", "tested", "failed"},
           N' \in 0..Cardinality(Creating), M' \in Nat, zero_in_KP' \in Nat, returnNormal' \in Nat,
           kpMaxNumArray' \in [Rows -> Nat], shm' \in ShmType, shm'.N \in 0..Cardinality(Creating),
           phase' = "test" => N' + zero_in_KP' <= ThreadNum
    PROVE  Base'
  <1>1. /\ code' = code /\ mode' = mode /\ UNCHANGED loaded /\ kpYield' = kpYield
        /\ turn' = turn /\ c_tid' = c_tid /\ tids' = tids /\ threads' = threads
    BY DEF process
  <1>2. SameProgram /\ Running' = Running
    BY <1>1 DEF SameProgram, Running
  <1>3. ProgramTypes /\ ProcessTypes /\ Team /\ FewThreads /\ ShmType' = ShmType
    BY DEF Base, ShmType
  <1>4. ProgramTypes'
    BY <1>2, <1>3 DEF ProgramTypes, SameProgram
  <1>5. Cardinality(Creating) \in Nat /\ Creating' = Creating /\ CreationCalls' = CreationCalls /\ ThreadType' = ThreadType
    BY <1>2, <1>3, ProgramFacts, SameCalls
  <1>6. DriverTypes'
    BY <1>3, <1>5 DEF DriverTypes
  <1>7. ProcessTypes'
    BY <1>1, <1>2, <1>3, <1>5 DEF ProcessTypes, loaded
  <1>8. FewThreads'
    BY <1>1, <1>3, <1>5 DEF FewThreads, loaded
  <1>9. Team'
    <2>1. Thread' = Thread
      BY <1>1 DEF Thread
    <2>2. ASSUME NEW t \in Thread, Member(t) PROVE Member(t)'
      BY <1>1, <1>2, <1>5, <2>2 DEF Member, KeyCalls, SameProgram
    <2> QED
      BY <1>1, <1>2, <1>3, <1>5, <2>1, <2>2 DEF Team
  <1> QED
    BY <1>4, <1>6, <1>7, <1>8, <1>9 DEF Base

LEMMA SetUpBase == ASSUME Base, SetUp PROVE Base'
  <1>1. DriverTypes /\ FewThreads /\ shm \in ShmType
    BY DEF Base, DriverTypes
  <1>2. /\ shm.N \in Nat /\ shm.M \in Nat /\ shm.num \in [Rows -> Nat] /\ kpMaxNumArray \in [Rows -> Nat]
        /\ shm.N \in 0..Cardinality(Creating) /\ returnNormal \in Nat /\ shm.time \in Nat
    BY <1>1 DEF ShmType, DriverTypes, FewThreads
  <1> DEFINE z == ZeroNum(shm.num, kpMaxNumArray, shm.N)
             kp == Written(ZeroPattern(shm.N, shm.N + z, shm.M), shm.M)
  <1>3. /\ phase = "set up" /\ N' = shm.N /\ M' = shm.M /\ zero_in_KP' = z
        /\ kpMaxNumArray' = Longer(shm.num, kpMaxNumArray, shm.N + z)
        /\ \/ phase' = "failed" /\ UNCHANGED shm
           \/ /\ phase' = "default"
              /\ shm' = [shm EXCEPT !.time = IF @ < 1000 THEN @ * 10 ELSE @, !.kp = kp]
        /\ UNCHANGED <<prog, iterPeriod, returnNormal, process>>
    BY DEF SetUp
  <1>4. z \in Nat
    BY ZeroNumType
  <1> HIDE DEF z
  <1>5. kp \in [Slots -> Nat]
    <2>1. shm.N + z \in Nat
      BY <1>2, <1>4
    <2>2. ZeroPattern(shm.N, shm.N + z, shm.M) \in [1..(shm.N + z) -> [1..shm.M -> Nat]]
      BY <1>2, <2>1, ZeroPatternType
    <2> QED
      BY <1>1, <1>2, <2>1, <2>2, WrittenType
  <1>6. kpMaxNumArray' \in [Rows -> Nat]
    BY <1>2, <1>3, LongerType
  <1> HIDE DEF kp
  <1>7. shm' \in ShmType /\ shm'.N = shm.N
    <2> DEFINE time == IF shm.time < 1000 THEN shm.time * 10 ELSE shm.time
    <2>1. time \in Nat
      BY <1>2
    <2>2. ASSUME shm' = [shm EXCEPT !.time = IF @ < 1000 THEN @ * 10 ELSE @, !.kp = kp]
          PROVE  shm' \in ShmType /\ shm'.N = shm.N
      <3>1. shm' = [shm EXCEPT !.time = time, !.kp = kp]
        BY <2>2
      <3> HIDE DEF time
      <3> QED
        BY <1>1, <1>5, <2>1, <3>1 DEF ShmType
    <2> QED
      BY <1>1, <1>3, <2>2
  <1> QED
    BY <1>2, <1>3, <1>4, <1>6, <1>7, QuietBase

LEMMA LearnBase == ASSUME Base, Learn PROVE Base'
  <1>1. DriverTypes /\ FewThreads /\ shm \in ShmType /\ ProgramTypes
    BY DEF Base, DriverTypes
  <1>2. /\ shm.N \in Nat /\ shm.M \in Nat /\ shm.num \in [Rows -> Nat] /\ kpMaxNumArray \in [Rows -> Nat]
        /\ shm.N \in 0..Cardinality(Creating) /\ N \in 0..Cardinality(Creating) /\ N \in Nat /\ M \in Nat
        /\ returnNormal \in Nat /\ zero_in_KP \in Nat
    BY <1>1 DEF ShmType, DriverTypes, FewThreads
  <1> DEFINE rows == N + zero_in_KP
             grown == shm.N > N \/ shm.M > M
             retry == mode # "returned" \/ grown \/ N <= 1
             kp == Written([r \in 1..N |-> [k \in 1..M |-> 0]], M)
             longer == Longer(shm.num, kpMaxNumArray, rows)
             first == [r \in Rows |-> IF returnNormal = 0 /\ r < rows /\ shm.num[r] >= 1 THEN shm.num[r]
                                      ELSE longer[r]]
  <1>3. /\ phase = "learn" /\ zero_in_KP' = zero_in_KP
        /\ \/ mode = "returned" /\ grown /\ N' = Max({N, shm.N}) /\ M' = Max({M, shm.M})
           \/ ~(mode = "returned" /\ grown) /\ N' = N /\ M' = M
        /\ returnNormal' = IF retry THEN returnNormal + 1 ELSE 4
        /\ phase' \in {"default", "test", "failed"}
        /\ phase' = "test" => N' + zero_in_KP <= ThreadNum /\ ~retry
        /\ \/ shm' = [shm EXCEPT !.kp = kp]
           \/ shm' = shm
        /\ UNCHANGED <<prog, iterPeriod, process>>
    BY DEF Learn
  <1>4. kpMaxNumArray' \in {first, Longer(shm.num, first, N' + zero_in_KP)}
    BY DEF Learn
  <1>5. longer \in [Rows -> Nat]
    BY <1>2, LongerType
  <1>6. kpMaxNumArray' \in [Rows -> Nat]
    <2>1. first \in [Rows -> Nat]
      <3> HIDE DEF longer, rows
      <3> QED
        BY <1>2, <1>5
    <2>2. Longer(shm.num, first, N' + zero_in_KP) \in [Rows -> Nat]
      <3> HIDE DEF first
      <3> QED
        BY <1>2, <2>1, LongerType
    <2> HIDE DEF first
    <2> QED
      BY <1>4, <2>1, <2>2
  <1>7. kp \in [Slots -> Nat]
    <2>1. [r \in 1..N |-> [k \in 1..M |-> 0]] \in [1..N -> [1..M -> Nat]]
      OBVIOUS
    <2> QED
      BY <1>1, <1>2, <2>1, WrittenType
  <1> HIDE DEF kp, longer, first
  <1>8. shm' \in ShmType /\ shm'.N = shm.N
    BY <1>1, <1>3, <1>7 DEF ShmType
  <1>9. N' \in 0..Cardinality(Creating) /\ M' \in Nat
    BY <1>2, <1>3, LessOf
  <1>10. phase' = "test" => N' + zero_in_KP' <= ThreadNum
    BY <1>3
  <1>11. returnNormal' \in Nat
    BY <1>2, <1>3
  <1> HIDE DEF rows, grown, retry
  <1> QED
    BY <1>2, <1>3, <1>6, <1>8, <1>9, <1>10, <1>11, QuietBase

LEMMA WriteTestBase == ASSUME Base, WriteTest PROVE Base'
  <1>1. DriverTypes /\ FewThreads /\ shm \in ShmType /\ ProgramTypes
    BY DEF Base, DriverTypes
  <1> DEFINE n == N + zero_in_KP
             kps == [t \in 0..(N + zero_in_KP - 1) |-> kpMaxNumArray[t]]
  <1>2. PICK s \in Mixed(kps, iterPeriod) : shm' = WriteConfig(Filled(kps, YieldPattern(kps, s), M))
    BY DEF WriteTest
  <1>3. /\ phase = "test" /\ phase' = "start"
        /\ UNCHANGED <<prog, iterPeriod, N, M, zero_in_KP, kpMaxNumArray, returnNormal, process>>
    BY DEF WriteTest
  <1>4. /\ kpMaxNumArray \in [Rows -> Nat] /\ n <= ThreadNum
        /\ N \in 0..Cardinality(Creating) /\ N \in Nat /\ M \in Nat
        /\ returnNormal \in Nat /\ zero_in_KP \in Nat /\ n \in Nat
    BY <1>1, <1>3 DEF ShmType, DriverTypes, FewThreads
  <1>5. iterPeriod \in Nat \ {0} /\ ThreadNum \in Nat
    BY <1>1, ProgramFacts, SizeAssumption
  <1>6. DOMAIN kps = 0..(n - 1) /\ \A t \in 0..(n - 1) : kps[t] \in Nat
    <2>1. \A t \in 0..(n - 1) : t \in Rows
      BY <1>4, <1>5 DEF Rows
    <2> QED
      BY <1>4, <2>1
  <1> HIDE DEF n, kps
  <1>7. Filled(kps, YieldPattern(kps, s), M) \in [1..n -> [1..M -> Nat]]
    BY <1>4, <1>5, <1>6, FilledType
  <1>8. Written(Filled(kps, YieldPattern(kps, s), M), M) \in [Slots -> Nat]
    BY <1>1, <1>4, <1>7, WrittenType
  <1>9. shm' \in ShmType /\ shm'.N = N
    BY <1>1, <1>2, <1>4, <1>8 DEF WriteConfig, ShmType
  <1> QED
    BY <1>3, <1>4, <1>9, QuietBase

LEMMA DriverBase == ASSUME Base, Driver PROVE Base'
  <1>1. CASE DryRun
    BY <1>1, BeginBase DEF DryRun
  <1>2. CASE DefaultRun
    BY <1>2, BeginBase DEF DefaultRun
  <1>3. CASE StartTest
    BY <1>3, BeginBase DEF StartTest
  <1>4. /\ N \in 0..Cardinality(Creating) /\ M \in Nat /\ zero_in_KP \in Nat /\ returnNormal \in Nat
        /\ kpMaxNumArray \in [Rows -> Nat] /\ shm \in ShmType /\ shm.N \in 0..Cardinality(Creating)
    BY DEF Base, DriverTypes, FewThreads
  <1>5. CASE NothingToTest
    BY <1>4, <1>5, QuietBase DEF NothingToTest, driver
  <1>6. CASE TestEnds
    BY <1>4, <1>6, QuietBase DEF TestEnds, driver
  <1> QED
    BY <1>1, <1>2, <1>3, <1>5, <1>6, SetUpBase, LearnBase, WriteTestBase DEF Driver

LEMMA StutterBase == ASSUME Base, UNCHANGED vars PROVE Base'
  <1>1. UNCHANGED <<prog, iterPeriod, phase, driver, shm, process>>
    BY DEF vars
  <1>2. /\ N' = N /\ M' = M /\ zero_in_KP' = zero_in_KP /\ kpMaxNumArray' = kpMaxNumArray
        /\ returnNormal' = returnNormal /\ code' = code /\ mode' = mode /\ num_td' = num_td
        /\ num_kp' = num_kp /\ DBDSruntime' = DBDSruntime /\ kpYield' = kpYield /\ turn' = turn
        /\ c_tid' = c_tid /\ tids' = tids /\ threads' = threads /\ shm' = shm
        /\ prog' = prog /\ iterPeriod' = iterPeriod /\ phase' = phase
    BY <1>1 DEF driver, process, loaded
  <1>3. Running' = Running /\ ThreadType' = ThreadType /\ ShmType' = ShmType /\ Thread' = Thread
        /\ Creating' = Creating /\ CreationCalls' = CreationCalls
    BY <1>2, SameCalls DEF Running, ShmType, SameProgram, Thread
  <1>4. ProgramTypes' /\ DriverTypes' /\ ProcessTypes' /\ FewThreads'
    BY <1>2, <1>3 DEF Base, ProgramTypes, DriverTypes, ProcessTypes, FewThreads
  <1>5. Team'
    <2>1. ASSUME NEW t \in Thread, Member(t) PROVE Member(t)'
      BY <1>2, <1>3, <2>1 DEF Member, KeyCalls
    <2> QED
      BY <1>2, <1>3, <2>1 DEF Base, Team
  <1> QED
    BY <1>4, <1>5 DEF Base

THEOREM SessionInvariant == Spec => []Base
  <1>1. ASSUME Base, [Next]_vars PROVE Base'
    BY <1>1, ExecuteBase, DriverBase, StutterBase DEF Next
  <1> QED
    BY <1>1, InitBase, PTL DEF Spec

(* Every variable keeps its type, whatever program is tested: the driver's *)
(* and the runtime's numbers are counts, thread numbers do not exceed the  *)
(* last one announced, and the arrays are filled with numbers.             *)
THEOREM TypeCorrectness == Spec => []TypeOK
  <1>1. ASSUME Base PROVE TypeOK
    <2>1. ProgramTypes /\ DriverTypes /\ ProcessTypes /\ Team
      BY <1>1 DEF Base
    <2>2. shm \in ShmType
      BY <2>1 DEF DriverTypes
    <2>3. {shm.time, shm.N, shm.M} \subseteq Nat /\ shm.num \in [Rows -> Nat]
          /\ {shm.kp, shm.loc} \subseteq [Slots -> Nat]
      BY <2>2 DEF ShmType
    <2>4. turn \in Nat
      BY <2>1 DEF ProcessTypes
    <2>5. ASSUME NEW t \in Thread
          PROVE  /\ threads[t].fn \in DOMAIN code
                 /\ threads[t].my_tid \in 0..c_tid
                 /\ threads[t].idx \in Nat /\ threads[t].yields \in Seq(Nat)
      <3>1. Running
        <4>1. ~Running => Thread = {}
          BY <2>1 DEF ProcessTypes, Thread
        <4> QED
          BY <4>1
      <3>2. threads[t].fn \in DOMAIN prog.code /\ threads[t].my_tid \in 0..c_tid
        BY <2>1, <3>1, ThreadAt
      <3>3. DOMAIN code = DOMAIN prog.code
        BY <2>1, <3>1, <3>2, CodeFacts
      <3>4. threads[t].idx \in Nat /\ threads[t].yields \in Seq(Nat)
        BY <2>1, <3>1, TeamSize DEF ThreadType
      <3> QED
        BY <3>2, <3>3, <3>4
    <2> QED
      BY <2>1, <2>3, <2>4, <2>5 DEF TypeOK, ProgramTypes, DriverTypes, ProcessTypes
  <1> QED
    BY <1>1, SessionInvariant, PTL

-----------------------------------------------------------------------------
(* What the factors of setDeadLineSched are for: few threads are never     *)
(* refused.  A thread's share is highest in the last class of times, 10 of *)
(* 75 tenths, on one CPU stretched to 10 of 82.5: seven of them fit into   *)
(* 95% of it, eight do not.                                                *)
Few == 7

(* Few threads have the weight 10, and a base of at least 1 that is at     *)
(* least 1.1 on one CPU.                                                   *)
LEMMA Factors ==
    ASSUME NEW td \in 0..Few, NEW cpus \in Nat \ {0}
    PROVE  /\ Weight(td, cpus) = 1000
           /\ Baise(td, cpus) \in Nat
           /\ Baise(td, cpus) >= 1000
           /\ cpus = 1 => Baise(td, cpus) = 1100
  BY DEF Weight, Baise, Few

LEMMA MilliType ==
    ASSUME NEW a \in Nat, NEW f \in Nat
    PROVE  Milli(a, f) \in Nat
  BY DEF Milli

LEMMA ScaledByTen ==
    ASSUME NEW td \in 0..Few, NEW cpus \in Nat \ {0}, NEW time \in Nat, NEW factor \in Nat
    PROVE  /\ Scaled(time, factor, td, cpus) = Milli(time, factor)
           /\ Scaled(time, factor, td, cpus) \in Nat
  <1>1. Weight(td, cpus) = 1000
    BY Factors, SMT
  <1>2. PICK m \in Nat : m = Milli(time, factor)
    BY MilliType, Zenon
  <1>3. Milli(m, 1000) = m
    BY SMT DEF Milli
  <1> QED
    BY <1>1, <1>2, <1>3, SMT DEF Scaled

(* In every class a thread runs at most 10 tenths in a period of 75, ...   *)
LEMMA Classes ==
    ASSUME NEW time \in Nat
    PROVE  /\ Budget(time) \in Nat /\ Length(time) \in Nat
           /\ 75 * Budget(time) <= 10 * Length(time)
           /\ time >= 2000000 => Budget(time) = 10 /\ Length(time) = 75
           /\ time < 2000000 => 10 * Budget(time) <= Length(time)
           /\ time >= LeastTime => time * Budget(time) >= 1024
  <1>1. CASE Within(time, 0, 10000)
    BY <1>1 DEF Budget, Length, Within, LeastTime
  <1>2. CASE Within(time, 10000, 100000)
    BY <1>2 DEF Budget, Length, Within, LeastTime
  <1>3. CASE Within(time, 100000, 500000)
    BY <1>3 DEF Budget, Length, Within, LeastTime
  <1>4. CASE Within(time, 500000, 1000000)
    BY <1>4 DEF Budget, Length, Within, LeastTime
  <1>5. CASE Within(time, 1000000, 2000000)
    BY <1>5 DEF Budget, Length, Within, LeastTime
  <1>6. CASE time >= 2000000
    BY <1>6 DEF Budget, Length, Within, LeastTime
  <1> QED
    BY <1>1, <1>2, <1>3, <1>4, <1>5, <1>6 DEF Within

(* On n CPUs a product with n is at least the product with 1. *)
LEMMA MoreCpus ==
    ASSUME NEW cpus \in Nat \ {0}, NEW p \in Nat
    PROVE  /\ cpus * p \in Nat /\ cpus * p >= p
           /\ cpus > 1 => cpus * p >= 2 * p
  OBVIOUS

(* A tenth, rounded down or not. *)
LEMMA Tenth ==
    ASSUME NEW t \in Nat, NEW b \in Nat, NEW l \in Nat, 10 * b <= l
    PROVE  10 * Milli(t, b) <= Milli(t, l)
  <1>1. 10 * (t * b) <= t * l
    OBVIOUS
  <1>2. t * b \in Nat /\ t * l \in Nat
    OBVIOUS
  <1> QED
    BY <1>1, <1>2 DEF Milli

(* The base only makes a period longer, by a tenth on one CPU. *)
LEMMA Stretched ==
    ASSUME NEW l \in Nat, NEW base \in Nat, base >= 1000
    PROVE  /\ Milli(l, base) \in Nat
           /\ Milli(l, base) >= l
           /\ base = 1100 => 10 * (Milli(l, base)) >= 11 * l - 10
  <1>1. l * base \in Nat /\ l * base >= l * 1000
    OBVIOUS
  <1>2. CASE base = 1100
    BY <1>2 DEF Milli
  <1>3. CASE base # 1100
    BY <1>1, <1>3 DEF Milli
  <1> QED
    BY <1>2, <1>3

(* The factors of setDeadLineSched (188-243) keep the kernel from refusing *)
(* a reservation to any of up to seven threads, whatever the dry run took, *)
(* from 21 microseconds on, and however many CPUs there are.               *)
THEOREM SevenAreAdmitted ==
    ASSUME NEW td \in 0..Few, NEW cpus \in Nat \ {0}, NEW time \in Nat, time >= LeastTime,
           NEW reserved \in 0..(Few - 1)
    PROVE  Admits(reserved, time, td, cpus)
  <1> DEFINE R == SchedRuntime(time, td, cpus)
             L == Scaled(time, Length(time), td, cpus)
             P == SchedPeriod(time, td, cpus)
             D == SchedDeadline(time, td, cpus)
  <1>1. /\ R = Milli(time, Budget(time)) /\ R \in Nat
        /\ L = Milli(time, Length(time)) /\ L \in Nat
    <2>1. Budget(time) \in Nat /\ Length(time) \in Nat
      BY Classes, SMT
    <2> QED
      BY <2>1, ScaledByTen DEF SchedRuntime
  <1>2. P \in Nat /\ P >= L /\ (cpus = 1 => 10 * P >= 11 * L - 10)
    BY <1>1, Factors, Stretched DEF SchedPeriod
  <1>3. D = P \/ D = L
    BY SMT DEF SchedDeadline
  <1>4. cpus * P \in Nat /\ cpus * P >= P /\ (cpus > 1 => cpus * P >= 2 * P)
    BY <1>2, MoreCpus
  <1>5. R <= L /\ 140 * R <= 19 * (cpus * P)
    <2>1. CASE time < 2000000
      <3>1. Budget(time) \in Nat /\ Length(time) \in Nat /\ 10 * Budget(time) <= Length(time)
        BY <2>1, Classes, SMT
      <3>2. 10 * R <= L
        BY <1>1, <3>1, Tenth, SMT
      <3> HIDE DEF R, L, P
      <3> QED
        BY <3>2, <1>1, <1>2, <1>4, SMT
    <2>2. CASE time >= 2000000
      <3>1. R = Milli(time, 10) /\ L = Milli(time, 75)
        BY <1>1, <2>2, Classes, SMT
      <3> HIDE DEF R, L, P
      <3>2. R >= 20000 /\ 2 * L >= 15 * R - 2
        BY <3>1, <2>2, SMT DEF Milli
      <3>3. CASE cpus = 1
        BY <3>2, <3>3, <1>1, <1>2, <1>4, SMT
      <3>4. CASE cpus > 1
        BY <3>2, <3>4, <1>1, <1>2, <1>4, SMT
      <3> QED
        BY <3>3, <3>4, SMT
    <2> QED
      BY <2>1, <2>2, SMT
  <1>6. (reserved + 1) * R * 20 <= 140 * R
    <2> HIDE DEF R
    <2>1. (reserved + 1) * R <= 7 * R /\ (reserved + 1) * R \in Nat
      BY <1>1 DEF Few
    <2> QED
      BY <2>1, <1>1
  <1>7. 19 * cpus * P = 19 * (cpus * P)
    BY <1>2
  <1>8. LongEnough(time, td, cpus)
    <2>1. Weight(td, cpus) = 1000
      BY Factors, SMT
    <2>2. PICK b \in Nat : b = Budget(time)
      BY Classes, SMT
    <2>3. time * b >= 1024 /\ time * b \in Nat
      BY <2>2, Classes, SMT
    <2>4. time * b > (1024 * 1000 - 1) \div 1000
      BY <2>3, SMT
    <2> QED
      BY <2>1, <2>2, <2>4 DEF LongEnough
  <1> HIDE DEF R, L, P, D
  <1>9. R <= D /\ D <= P /\ (reserved + 1) * R * 20 <= 19 * cpus * P
    <2>1. (reserved + 1) * R * 20 \in Nat
      BY <1>1
    <2> QED
      BY <2>1, <1>1, <1>2, <1>3, <1>4, <1>5, <1>6, <1>7
  <1> QED
    BY <1>8, <1>9 DEF Admits, R, D, P
-----------------------------------------------------------------------------
(* The registering thread has no reservation yet, and main never has one:  *)
(* before the last of seven threads there are six.                         *)
LEMMA FewReserved ==
    ASSUME Base, Running, NEW t \in Thread, At(t, "instr_PthreadCall")
    PROVE  Reserved \in 0..(Cardinality(Creating) - 1)
  <1>1. ProgramTypes /\ ProcessTypes /\ Team
    BY DEF Base
  <1>2. /\ Len(threads) \in Nat /\ Thread = 1..Len(threads) /\ Main \in Thread
        /\ Cardinality(Creating) \in Nat /\ Len(threads) - 1 <= Cardinality(Creating)
    BY <1>1, TeamSize
  <1> DEFINE R == {u \in Thread : threads[u].my_tid # 0 /\ ~Ended(u)}
             others == Thread \ {Main, t}
  <1>3. t # Main /\ threads[t].my_tid = 0
    <2>1. CodeOf(threads[t].fn) /\ threads[t].at \in 1..Len(code[threads[t].fn])
          /\ (t = Main <=> threads[t].fn = "main")
      BY <1>1, ThreadAt DEF At
    <2>2. t # Main /\ threads[t].at = 1
      BY <2>1 DEF CodeOf, At
    <2> QED
      BY <1>1, <2>2 DEF Team, Member
  <1>4. R \subseteq others
    BY <1>1, <1>3 DEF Team
  <1>5. IsFiniteSet(Thread) /\ Cardinality(Thread) = Len(threads)
    <2>1. /\ IsFiniteSet(1..Len(threads))
          /\ Cardinality(1..Len(threads)) = IF 1 > Len(threads) THEN 0 ELSE Len(threads) - 1 + 1
      BY <1>2, FS_Interval
    <2>2. 1 <= Len(threads)
      BY <1>2 DEF Main
    <2> QED
      BY <1>2, <2>1, <2>2
  <1>6. IsFiniteSet(others) /\ Cardinality(others) = Len(threads) - 2
    <2> DEFINE all == Thread
               few == all \ {Main}
    <2>1. IsFiniteSet(all) /\ Cardinality(all) = Len(threads) /\ Main \in all
      BY <1>2, <1>5
    <2> HIDE DEF all
    <2>2. IsFiniteSet(few) /\ Cardinality(few) = Cardinality(all) - 1
      BY <2>1, FS_RemoveElement
    <2>3. t \in few
      BY <1>3 DEF all
    <2>4. others = few \ {t}
      BY DEF all
    <2> HIDE DEF few, others
    <2>5. IsFiniteSet(others) /\ Cardinality(others) = Cardinality(few) - 1
      BY <2>2, <2>3, <2>4, FS_RemoveElement
    <2> QED
      BY <1>2, <2>1, <2>2, <2>5
  <1> HIDE DEF others, R
  <1>7. IsFiniteSet(R) /\ Cardinality(R) <= Len(threads) - 2 /\ Cardinality(R) \in Nat
    BY <1>4, <1>6, FS_Subset, FS_CardinalityType
  <1>8. Reserved = Cardinality(R)
    BY DEF Reserved, R
  <1> QED
    BY <1>2, <1>7, <1>8

(* The factors of setDeadLineSched (188, 221-243) keep the kernel from     *)
(* refusing up to seven threads: N never exceeds the number of creations,  *)
(* and no more than six have a reservation when another one asks for its.  *)
THEOREM NoRefusal == Spec => []NeverRefused
  <1> DEFINE few == Closed(prog) /\ Cardinality(Children) <= 7
             long == DBDSruntime >= LeastTime
  <1>1. Init => NeverRefused
    BY DEF Init, NeverRefused
  <1>2. ASSUME Base, NeverRefused, [Next]_vars PROVE NeverRefused'
    <2>1. prog' = prog /\ few' = few
      <3>1. prog' = prog
        BY <1>2, ExecuteRuns DEF Next, Driver, DryRun, SetUp, DefaultRun, Learn, WriteTest, NothingToTest,
                  StartTest, TestEnds, vars, SameProgram
      <3> QED
        BY <3>1 DEF Children, Creating
    <2>2. ASSUME few, long' PROVE mode' # "refused"
      <3>1. long => mode # "refused"
        BY <1>2, <2>2 DEF NeverRefused
      <3>2. CASE Driver \/ UNCHANGED vars
        <4>1. (mode' = mode /\ DBDSruntime' = DBDSruntime) \/ mode' \in {"dry", "dbds"}
          BY <3>2 DEF Driver, DryRun, SetUp, DefaultRun, Learn, WriteTest, NothingToTest, StartTest,
                      TestEnds, vars, process, loaded, TraceBegin
        <4> QED
          BY <2>2, <3>1, <4>1
      <3>3. ASSUME NEW t \in Thread, Execute(t) PROVE mode' # "refused"
        <4>1. Running /\ ThreadStep(t)
          BY <3>3, ExecuteRuns DEF Execute
        <4>2. DBDSruntime' = DBDSruntime /\ mode # "refused"
          BY <4>1 DEF Running, loaded, ThreadStep, BeforePthreadCreate, PthreadCreate, Register, MainKeyPoint,
                KeyPoint, PthreadJoin, CallTraceEnd, Exit, MainReturns, End
        <4>3. DBDSruntime >= LeastTime
          BY <2>2, <4>2
        <4>4. CASE Register(t)
          <5>1. At(t, "instr_PthreadCall")
            BY <4>4 DEF Register
          <5>2. Cardinality(Creating) <= 7 /\ Cardinality(Creating) \in Nat /\ num_td \in 0..Cardinality(Creating)
                /\ DBDSruntime \in Nat
            <6>1. ProgramTypes /\ FewThreads /\ ProcessTypes
              BY <1>2 DEF Base
            <6>2. Cardinality(Creating) \in Nat
              BY <6>1, ProgramFacts
            <6>3. Cardinality(1..Cardinality(Creating)) = Cardinality(Creating)
              <7> DEFINE n == Cardinality(Creating)
              <7>1. n \in Int /\ n >= 0
                BY <6>2
              <7> HIDE DEF n
              <7>2. Cardinality(1..n) = IF 1 > n THEN 0 ELSE n - 1 + 1
                BY <7>1, FS_Interval
              <7>3. Cardinality(1..n) = n
                BY <7>1, <7>2
              <7> QED
                BY <7>3 DEF n
            <6> QED
              BY <2>2, <6>1, <6>2, <6>3 DEF Children, FewThreads, ProcessTypes
          <5>3. Reserved \in 0..(Cardinality(Creating) - 1)
            BY <1>2, <4>1, <5>1, FewReserved
          <5>4. num_td \in 0..Few /\ Reserved \in 0..(Few - 1) /\ Cpus \in Nat \ {0}
            BY <5>2, <5>3, SizeAssumption DEF Few
          <5>5. Admits(Reserved, DBDSruntime, num_td, Cpus)
            BY <4>3, <5>2, <5>4, SevenAreAdmitted
          <5>6. ~Refused
            BY <5>5 DEF Refused
          <5> QED
            BY <4>2, <4>4, <5>6 DEF Register
        <4>5. CASE ~Register(t)
          BY <4>2, <4>1, <4>5 DEF ThreadStep, BeforePthreadCreate, PthreadCreate, MainKeyPoint, KeyPoint,
                PthreadJoin, CallTraceEnd, Exit, MainReturns, End
        <4> QED
          BY <4>4, <4>5
      <3> QED
        BY <1>2, <3>1, <3>2, <3>3 DEF Next
    <2> QED
      BY <2>1, <2>2 DEF NeverRefused
  <1> QED
    BY <1>1, <1>2, SessionInvariant, PTL DEF Spec
=============================================================================

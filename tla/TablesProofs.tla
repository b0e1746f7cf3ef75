---------------------------- MODULE TablesProofs ----------------------------
(***************************************************************************)
(* Theorems about Tables: parse_free gives the samples of every text, of   *)
(* any length.  The proof is an induction over the lines of the text; what *)
(* holds after each of them is FaithfulTo.                                 *)
(***************************************************************************)
EXTENDS Tables, TLAPS, WellFoundedInduction

-----------------------------------------------------------------------------
(* Induction over the natural numbers, for a set instead of a predicate.   *)

\* A set of numbers with 0 and every successor in it has them all in it.
LEMMA Induction ==
    ASSUME NEW S, S \subseteq Nat, 0 \in S, \A n \in S : n + 1 \in S
    PROVE  Nat \subseteq S
  <1>. SUFFICES ASSUME Nat \ S # {} PROVE FALSE
    OBVIOUS
  <1>. DEFINE Less == OpToRel(<, Nat)
  <1>1. PICK n \in Nat \ S : \A k \in Nat \ S : <<k, n>> \notin Less
    <2>1. IsWellFoundedOn(Less, Nat)
      BY NatLessThanWellFounded
    <2>. HIDE DEF Less
    <2>. QED  BY <2>1, WFMin
  <1>2. n # 0 /\ n - 1 \in Nat /\ n - 1 < n
    OBVIOUS
  <1>3. <<n - 1, n>> \in Less
    BY <1>2 DEF OpToRel
  <1>4. n - 1 \in S
    BY <1>1, <1>2, <1>3
  <1>. QED  BY <1>2, <1>4

-----------------------------------------------------------------------------
(* The recursive function in ParseFree.                                    *)

\* f is what parse_free has after each line, up to line n.
Reads(f, text, n) ==
    f = [i \in 0..n |-> IF i = 0 THEN [samples |-> <<>>, current |-> FALSE]
                        ELSE FreeStep(f[i - 1], text[i], i)]

\* There is such a function, whatever the text (_parsers.py:77-108).
LEMMA ReadsExists ==
    ASSUME NEW text, NEW n \in Nat
    PROVE  \E f : Reads(f, text, n)
  <1>. DEFINE S == {k \in Nat : \E f : Reads(f, text, k)}
  <1>1. 0 \in S
    <2>. DEFINE f == [i \in 0..0 |-> [samples |-> <<>>, current |-> FALSE]]
    <2>1. Reads(f, text, 0)
      BY DEF Reads
    <2>. QED  BY <2>1
  <1>2. ASSUME NEW k \in S PROVE k + 1 \in S
    <2>1. PICK f : Reads(f, text, k)
      OBVIOUS
    <2>. DEFINE g == [i \in 0 .. (k + 1) |-> IF i = k + 1 THEN FreeStep(f[k], text[k + 1], k + 1) ELSE f[i]]
    <2>2. \A i \in 0..k : g[i] = f[i]
      OBVIOUS
    <2>3. ASSUME NEW i \in 0 .. (k + 1)
          PROVE  g[i] = IF i = 0 THEN [samples |-> <<>>, current |-> FALSE]
                                 ELSE FreeStep(g[i - 1], text[i], i)
      <3>1. CASE i = k + 1
        <4>1. i # 0 /\ i - 1 = k /\ g[k] = f[k]
          BY <2>2, <3>1
        <4>. QED  BY <3>1, <4>1
      <3>2. CASE i # k + 1
        <4>1. i \in 0..k /\ g[i] = f[i] /\ (i # 0 => i - 1 \in 0..k /\ g[i - 1] = f[i - 1])
          BY <2>2, <3>2
        <4>2. f[i] = IF i = 0 THEN [samples |-> <<>>, current |-> FALSE]
                              ELSE FreeStep(f[i - 1], text[i], i)
          BY <2>1, <4>1 DEF Reads
        <4>. HIDE DEF g
        <4>. QED  BY <4>1, <4>2
      <3>. QED  BY <3>1, <3>2
    <2>4. Reads(g, text, k + 1)
      <3>. HIDE DEF g
      <3>1. g = [i \in 0 .. (k + 1) |-> g[i]]
        BY DEF g
      <3>. QED  BY <2>3, <3>1 DEF Reads
    <2>. QED  BY <2>4
  <1>. HIDE DEF S
  <1>3. n \in S
    BY <1>1, <1>2, Induction DEF S
  <1>. QED  BY <1>3 DEF S

\* ParseFree takes its samples from one.
LEMMA ParseFreeReads ==
    ASSUME NEW text, Len(text) \in Nat
    PROVE  \E f : Reads(f, text, Len(text)) /\ ParseFree(text) = f[Len(text)].samples
  <1>. DEFINE f == CHOOSE g : Reads(g, text, Len(text))
  <1>1. Reads(f, text, Len(text))
    BY ReadsExists
  <1>2. ParseFree(text) = f[Len(text)].samples
    BY DEF ParseFree, Reads
  <1>. QED  BY <1>1, <1>2

-----------------------------------------------------------------------------
(* What holds after each line.                                             *)

AnyLine == FreeLines \cup DfLines
Samples == Seq([mem : Nat, swap : Nat])
Mems(text, i) == {j \in 1..i : text[j] \in {"Mem", "Mem?"}}
\* mem is the last of the Mem lines before line i + 1; if it is 0, the last of
\* them, if any, could not be read.
Latest(mem, text, i) ==
    IF mem = 0 THEN \A j \in Mems(text, i) : text[j] = "Mem" => \E l \in Mems(text, i) : l > j
    ELSE mem \in Mems(text, i) /\ \A j \in Mems(text, i) : j <= mem

\* What the samples and the current one are, after n lines.
SamplesTyped(s) == s \in [samples : Samples, current : BOOLEAN]
TracksCurrent(s, text, n) ==
    IF s.current THEN s.samples # <<>> /\ Latest(s.samples[Len(s.samples)].mem, text, n)
                 ELSE Latest(0, text, n)
\* No Mem line in a range of lines.
NoMem(text, i, j) == \A l \in i..j : text[l] \notin {"Mem", "Mem?"}
KeepsSwaps(s, text, n) ==
    /\ \A i \in 1..n : text[i] = "Swap" =>
         \E k \in DOMAIN s.samples :
           LET swap == s.samples[k].swap IN swap \in i..n /\ NoMem(text, i, swap)
    /\ s.current => LET swap == s.samples[Len(s.samples)].swap
                     IN  swap # 0 => NoMem(text, swap, n)
KeepsMems(s, text, n) ==
    \A i \in 1..n : text[i] = "Mem" => \E k \in DOMAIN s.samples : s.samples[k].mem = i
Told(p, text, n) ==
    /\ p.mem # 0 => p.mem \in 1..n /\ text[p.mem] = "Mem"
    /\ p.swap # 0 => p.swap \in 1..n /\ text[p.swap] = "Swap" /\ Latest(p.mem, text, p.swap - 1)
    /\ p.mem # 0 \/ p.swap # 0
InOrder(s) ==
    \A k, l \in DOMAIN s.samples :
      k < l => \A i \in ReadFrom(s.samples[k]), j \in ReadFrom(s.samples[l]) : i < j
FaithfulTo(s, text, n) ==
    /\ SamplesTyped(s) /\ TracksCurrent(s, text, n) /\ KeepsMems(s, text, n)
    /\ KeepsSwaps(s, text, n) /\ InOrder(s)
    /\ \A k \in DOMAIN s.samples : Told(s.samples[k], text, n)

-----------------------------------------------------------------------------
(* Sequences.                                                              *)

\* Length and members.
LEMMA SeqParts ==
    ASSUME NEW T, NEW q \in Seq(T)
    PROVE  Len(q) \in Nat /\ DOMAIN q = 1 .. Len(q) /\ \A k \in 1 .. Len(q) : q[k] \in T
  OBVIOUS

\* One more member.
LEMMA AppendParts ==
    ASSUME NEW T, NEW q \in Seq(T), NEW p \in T
    PROVE  /\ Append(q, p) \in Seq(T) /\ Len(Append(q, p)) = Len(q) + 1
           /\ DOMAIN Append(q, p) = 1 .. (Len(q) + 1)
           /\ Append(q, p)[Len(q) + 1] = p /\ \A k \in 1 .. Len(q) : Append(q, p)[k] = q[k]
  OBVIOUS

\* One member replaced.
LEMMA ExceptParts ==
    ASSUME NEW T, NEW q \in Seq(T), NEW i \in 1 .. Len(q), NEW p \in T
    PROVE  LET u == [q EXCEPT ![i] = p]
           IN  /\ u \in Seq(T) /\ Len(u) = Len(q) /\ DOMAIN u = 1 .. Len(q)
               /\ u[i] = p /\ \A k \in 1 .. Len(q) : k # i => u[k] = q[k]
  OBVIOUS

-----------------------------------------------------------------------------
(* The induction.                                                          *)

\* A sample told of some lines is told of one more.
LEMMA ToldMore ==
    ASSUME NEW text, NEW n \in Nat, NEW p, Told(p, text, n)
    PROVE  Told(p, text, n + 1)
  BY DEF Told

\* What holds after a line holds after the next, whichever it is
\* (_parsers.py:84-107).
LEMMA FaithfulStep ==
    ASSUME NEW text \in Seq(AnyLine), NEW n \in Nat, n < Len(text),
           NEW s, FaithfulTo(s, text, n)
    PROVE  FaithfulTo(FreeStep(s, text[n + 1], n + 1), text, n + 1)
  <1>. DEFINE line == text[n + 1]
              new == FreeStep(s, line, n + 1)
              top == Len(s.samples)
  <1>. SUFFICES FaithfulTo(new, text, n + 1)
    OBVIOUS
  <1>1. /\ s.samples \in Samples /\ s.current \in BOOLEAN
        /\ top \in Nat /\ DOMAIN s.samples = 1..top
        /\ \A k \in 1..top : s.samples[k] \in [mem : Nat, swap : Nat]
        /\ line \in AnyLine
    <2>1. s \in [samples : Samples, current : BOOLEAN]
      BY DEF FaithfulTo, SamplesTyped
    <2>2. s.samples \in Samples /\ s.current \in BOOLEAN
      BY <2>1
    <2>3. s.samples \in Seq([mem : Nat, swap : Nat])
      BY <2>2 DEF Samples
    <2>4. /\ top \in Nat /\ DOMAIN s.samples = 1..top
          /\ \A k \in 1..top : s.samples[k] \in [mem : Nat, swap : Nat]
      BY <2>3, SeqParts
    <2>5. line \in AnyLine
      BY SMT
    <2>. QED  BY <2>2, <2>4, <2>5
  <1>2. Mems(text, n + 1) = Mems(text, n) \cup IF line \in {"Mem", "Mem?"} THEN {n + 1} ELSE {}
    BY DEF Mems
  <1>3. \A k \in 1..top : Told(s.samples[k], text, n) /\ Told(s.samples[k], text, n + 1)
    BY <1>1, ToldMore DEF FaithfulTo
  <1>4. SamplesTyped(s) /\ TracksCurrent(s, text, n) /\ KeepsMems(s, text, n)
       /\ KeepsSwaps(s, text, n) /\ InOrder(s)
    BY DEF FaithfulTo
  <1>5. /\ top \in Nat
        /\ \A k, l \in 1..top : k < l =>
             \A i \in ReadFrom(s.samples[k]), j \in ReadFrom(s.samples[l]) : i < j
    BY <1>1, <1>4 DEF InOrder
  <1>6. ASSUME NEW k \in 1..top, NEW i \in ReadFrom(s.samples[k]) PROVE i < n + 1
    <2>1. /\ s.samples[k].swap # 0 => s.samples[k].swap \in 1..n
          /\ s.samples[k].mem # 0 => s.samples[k].mem \in 1..n
      BY <1>3 DEF Told
    <2>. QED  BY <2>1 DEF ReadFrom
  <1>7. ASSUME NEW p \in [mem : Nat, swap : Nat], new = [samples |-> Append(s.samples, p), current |-> TRUE],
               Told(p, text, n + 1), ReadFrom(p) \subseteq {n + 1}, Latest(p.mem, text, n + 1),
               line = "Mem" => p.mem = n + 1, line = "Swap" => p.swap = n + 1
        PROVE  FaithfulTo(new, text, n + 1)
    <2>1. /\ new.samples \in Samples /\ DOMAIN new.samples = 1 .. (top + 1)
          /\ Len(new.samples) = top + 1 /\ new.samples # <<>>
          /\ new.samples[top + 1] = p /\ \A k \in 1..top : new.samples[k] = s.samples[k]
          /\ new.current = TRUE /\ SamplesTyped(new)
      <3>1. new.samples = Append(s.samples, p) /\ new.current = TRUE
        BY <1>7
      <3>2. ASSUME NEW q \in Samples PROVE SamplesTyped([samples |-> q, current |-> TRUE])
        BY DEF SamplesTyped
      <3>3. new = [samples |-> Append(s.samples, p), current |-> TRUE]
        BY <1>7
      <3>. HIDE DEF new
      <3>4. /\ new.samples \in Samples /\ DOMAIN new.samples = 1 .. (top + 1)
            /\ Len(new.samples) = top + 1
            /\ new.samples[top + 1] = p /\ \A k \in 1..top : new.samples[k] = s.samples[k]
        BY <1>1, <1>7, <3>1, AppendParts DEF Samples
      <3>5. SamplesTyped(new)
        BY <3>1, <3>2, <3>4, <3>3
      <3>6. new.samples # <<>>
        BY <1>1, <3>4
      <3>. QED  BY <3>1, <3>4, <3>5, <3>6
    <2>. HIDE DEF new
    <2>2. TracksCurrent(new, text, n + 1)
      BY <1>7, <2>1 DEF TracksCurrent
    <2>3. KeepsMems(new, text, n + 1)
      <3>. SUFFICES ASSUME NEW i \in 1 .. (n + 1), text[i] = "Mem"
                    PROVE  \E k \in 1 .. (top + 1) : new.samples[k].mem = i
        BY <2>1 DEF KeepsMems
      <3>1. CASE i = n + 1
        <4>1. p.mem = i
          BY <1>7, <3>1
        <4>2. top + 1 \in 1 .. (top + 1)
          BY <1>5
        <4>. QED  BY <2>1, <4>1, <4>2
      <3>2. CASE i # n + 1
        <4>1. PICK k \in 1..top : s.samples[k].mem = i
          <5>1. KeepsMems(s, text, n) /\ i \in 1..n /\ text[i] = "Mem"
            BY <1>1, <1>4, <3>2
          <5>2. DOMAIN s.samples = 1..top
            BY <1>1
          <5>. QED  BY <5>1, <5>2 DEF KeepsMems
        <4>2. k \in 1 .. (top + 1)
          <5>1. top \in Nat
            BY <1>1
          <5>. QED  BY <5>1
        <4>3. new.samples[k] = s.samples[k]
          BY <2>1
        <4>. QED  BY <4>1, <4>2, <4>3
      <3>. QED  BY <3>1, <3>2
    <2>4. \A k \in DOMAIN new.samples : Told(new.samples[k], text, n + 1)
      BY <1>1, <1>7, <1>3, <2>1
    <2>5. KeepsSwaps(new, text, n + 1)
      <3>1. ASSUME NEW i \in 1 .. (n + 1), text[i] = "Swap"
            PROVE  \E k \in 1 .. (top + 1) :
                     new.samples[k].swap \in i .. (n + 1) /\ NoMem(text, i, new.samples[k].swap)
        <4>1. CASE i = n + 1
          <5>1. p.swap = n + 1
            BY <1>7, <3>1, <4>1
          <5>2. NoMem(text, n + 1, n + 1)
            BY <3>1, <4>1 DEF NoMem
          <5>3. top + 1 \in 1 .. (top + 1) /\ n + 1 \in (n + 1) .. (n + 1)
            BY <1>1, <1>5
          <5>4. new.samples[top + 1].swap = n + 1
            BY <2>1, <5>1
          <5>. QED  BY <4>1, <5>2, <5>3, <5>4
        <4>2. CASE i # n + 1
          <5>1. PICK k \in 1..top : s.samples[k].swap \in i..n /\ NoMem(text, i, s.samples[k].swap)
            <6>1. KeepsSwaps(s, text, n) /\ i \in 1..n /\ text[i] = "Swap"
              BY <1>1, <1>4, <3>1, <4>2
            <6>2. DOMAIN s.samples = 1..top
              BY <1>1
            <6>. QED  BY <6>1, <6>2 DEF KeepsSwaps
          <5>2. new.samples[k] = s.samples[k] /\ k \in 1 .. (top + 1)
            BY <1>5, <2>1
          <5>3. s.samples[k].swap \in i .. (n + 1)
            BY <5>1
          <5>. QED  BY <5>1, <5>2, <5>3
        <4>. QED  BY <4>1, <4>2
      <3>2. p.swap # 0 => NoMem(text, p.swap, n + 1)
        <4>1. p.swap # 0 => p.swap = n + 1 /\ text[n + 1] = "Swap"
          BY <1>7 DEF Told, ReadFrom
        <4>. QED  BY <4>1 DEF NoMem
      <3>. QED  BY <2>1, <3>1, <3>2 DEF KeepsSwaps
    <2>6. \A k \in 1..top : \A i \in ReadFrom(s.samples[k]) : i < n + 1
      BY <1>6
    <2>7. InOrder(new)
      <3>. SUFFICES ASSUME NEW k \in 1 .. (top + 1), NEW l \in 1 .. (top + 1), k < l,
                           NEW i \in ReadFrom(new.samples[k]), NEW j \in ReadFrom(new.samples[l])
                    PROVE  i < j
        BY <2>1 DEF InOrder
      <3>1. k \in 1..top
        BY <1>1
      <3>2. CASE l = top + 1
        BY <1>7, <2>1, <2>6, <3>1, <3>2
      <3>3. CASE l # top + 1
        <4>1. l \in 1..top
          BY <1>5, <3>3
        <4>. QED  BY <1>5, <2>1, <3>1, <4>1
      <3>. QED  BY <3>2, <3>3
    <2>. QED  BY <2>1, <2>2, <2>3, <2>4, <2>5, <2>7 DEF FaithfulTo
  <1>8. CASE line = "Mem"
    <2>. DEFINE p == Sample(n + 1, 0)
    <2>1. new = [samples |-> Append(s.samples, p), current |-> TRUE]
      BY <1>8 DEF FreeStep
    <2>2. /\ p \in [mem : Nat, swap : Nat] /\ p.mem = n + 1 /\ p.swap = 0
          /\ ReadFrom(p) \subseteq {n + 1}
      BY DEF Sample, ReadFrom
    <2>. HIDE DEF p, new
    <2>3. Told(p, text, n + 1)
      BY <1>8, <2>2 DEF Told
    <2>4. Latest(p.mem, text, n + 1)
      BY <1>8, <1>2, <2>2 DEF Latest, Mems
    <2>. QED  BY <1>7, <1>8, <2>1, <2>2, <2>3, <2>4
  <1>9. CASE line = "Swap" /\ ~s.current
    <2>. DEFINE p == Sample(0, n + 1)
    <2>1. new = [samples |-> Append(s.samples, p), current |-> TRUE]
      BY <1>9 DEF FreeStep
    <2>2. /\ p \in [mem : Nat, swap : Nat] /\ p.mem = 0 /\ p.swap = n + 1
          /\ ReadFrom(p) \subseteq {n + 1}
      BY DEF Sample, ReadFrom
    <2>3. Latest(0, text, n) /\ Mems(text, n + 1) = Mems(text, n)
      BY <1>9, <1>2 DEF FaithfulTo, TracksCurrent
    <2>. HIDE DEF p, new
    <2>4. Told(p, text, n + 1)
      BY <1>9, <2>2, <2>3 DEF Told
    <2>5. Latest(p.mem, text, n + 1)
      BY <2>2, <2>3 DEF Latest
    <2>. QED  BY <1>7, <1>9, <2>1, <2>2, <2>4, <2>5
  <1>10. CASE line = "Swap" /\ s.current
    <2>1. new = [s EXCEPT !.samples[top].swap = n + 1]
      BY <1>10 DEF FreeStep
    <2>2. top \in 1..top /\ Latest(s.samples[top].mem, text, n) /\ Mems(text, n + 1) = Mems(text, n)
      <3>1. s.samples # <<>> /\ Latest(s.samples[top].mem, text, n)
        BY <1>10, <1>4 DEF TracksCurrent
      <3>2. top # 0
        BY <1>1, <3>1 DEF Samples
      <3>3. Mems(text, n + 1) = Mems(text, n)
        BY <1>10, <1>2
      <3>. QED  BY <1>1, <3>1, <3>2, <3>3
    <2>3. /\ new.samples = [s.samples EXCEPT ![top] = [s.samples[top] EXCEPT !.swap = n + 1]]
          /\ new.current = s.current /\ new \in [samples : {new.samples}, current : {new.current}]
      BY <2>1 DEF FaithfulTo, SamplesTyped
    <2>4. /\ new.samples \in Samples /\ DOMAIN new.samples = 1..top /\ Len(new.samples) = top
          /\ new.samples # <<>>
          /\ new.samples[top].mem = s.samples[top].mem /\ new.samples[top].swap = n + 1
          /\ \A k \in 1..top : k # top => new.samples[k] = s.samples[k]
      <3>. DEFINE p == [s.samples[top] EXCEPT !.swap = n + 1]
      <3>1. p \in [mem : Nat, swap : Nat] /\ p.mem = s.samples[top].mem /\ p.swap = n + 1
        <4>. DEFINE q == s.samples[top]
        <4>1. q \in [mem : Nat, swap : Nat]
          BY <1>1, <2>2
        <4>. HIDE DEF q
        <4>2. LET u == [q EXCEPT !.swap = n + 1]
              IN  u \in [mem : Nat, swap : Nat] /\ u.mem = q.mem /\ u.swap = n + 1
          BY <4>1
        <4>. QED  BY <4>2 DEF q
      <3>2. new.samples = [s.samples EXCEPT ![top] = p]
        BY <2>3
      <3>. HIDE DEF new, p
      <3>3. /\ new.samples \in Samples /\ DOMAIN new.samples = 1..top /\ Len(new.samples) = top
            /\ new.samples[top] = p /\ \A k \in 1..top : k # top => new.samples[k] = s.samples[k]
        BY <1>1, <2>2, <3>1, <3>2, ExceptParts DEF Samples
      <3>4. new.samples # <<>>
        BY <2>2, <3>3
      <3>. QED  BY <3>1, <3>3, <3>4
    <2>. HIDE DEF new
    <2>5. SamplesTyped(new)
      BY <1>1, <2>3, <2>4 DEF SamplesTyped
    <2>6. TracksCurrent(new, text, n + 1)
      BY <1>10, <2>2, <2>3, <2>4 DEF TracksCurrent, Latest
    <2>7. KeepsMems(new, text, n + 1)
      <3>. SUFFICES ASSUME NEW i \in 1 .. (n + 1), text[i] = "Mem"
                    PROVE  \E k \in DOMAIN new.samples : new.samples[k].mem = i
        BY DEF KeepsMems
      <3>1. i \in 1..n
        BY <1>10
      <3>2. PICK k \in 1..top : s.samples[k].mem = i
        BY <1>1, <1>4, <3>1 DEF KeepsMems
      <3>. QED  BY <2>4, <3>2
    <2>8. KeepsSwaps(new, text, n + 1)
      <3>1. ASSUME NEW i \in 1 .. (n + 1), text[i] = "Swap"
            PROVE  \E k \in 1..top :
                     new.samples[k].swap \in i .. (n + 1) /\ NoMem(text, i, new.samples[k].swap)
        <4>1. CASE i = n + 1
          <5>1. NoMem(text, n + 1, n + 1)
            BY <3>1, <4>1 DEF NoMem
          <5>. QED  BY <2>2, <2>4, <4>1, <5>1
        <4>2. CASE i # n + 1
          <5>1. PICK k \in 1..top : s.samples[k].swap \in i..n /\ NoMem(text, i, s.samples[k].swap)
            BY <1>1, <1>4, <3>1, <4>2 DEF KeepsSwaps
          <5>2. CASE k = top
            <6>1. NoMem(text, s.samples[top].swap, n)
              BY <1>10, <1>4, <5>1, <5>2 DEF KeepsSwaps
            <6>2. NoMem(text, i, n + 1)
              BY <1>10, <5>1, <5>2, <6>1 DEF NoMem
            <6>. QED  BY <2>2, <2>4, <6>2
          <5>3. CASE k # top
            <6>1. new.samples[k] = s.samples[k] /\ s.samples[k].swap \in i .. (n + 1)
              BY <2>4, <5>1, <5>3
            <6>. QED  BY <5>1, <6>1
          <5>. QED  BY <5>2, <5>3
        <4>. QED  BY <4>1, <4>2
      <3>2. NoMem(text, n + 1, n + 1)
        BY <1>10 DEF NoMem
      <3>. QED  BY <2>4, <3>1, <3>2 DEF KeepsSwaps
    <2>9. Told(new.samples[top], text, n + 1)
      <3>1. Told(s.samples[top], text, n + 1)
        BY <1>3, <2>2
      <3>. QED  BY <1>10, <2>2, <2>4, <3>1 DEF Told
    <2>10. \A k \in DOMAIN new.samples : Told(new.samples[k], text, n + 1)
      BY <1>3, <2>4, <2>9
    <2>11. /\ \A k \in 1..top : \A i \in ReadFrom(s.samples[k]) : i < n + 1
           /\ ReadFrom(new.samples[top]) \subseteq ReadFrom(s.samples[top]) \cup {n + 1}
      BY <1>6, <2>4 DEF ReadFrom
    <2>12. InOrder(new)
      <3>. SUFFICES ASSUME NEW k \in 1..top, NEW l \in 1..top, k < l,
                           NEW i \in ReadFrom(new.samples[k]), NEW j \in ReadFrom(new.samples[l])
                    PROVE  i < j
        BY <2>4 DEF InOrder
      <3>1. k # top /\ i \in ReadFrom(s.samples[k])
        BY <1>1, <2>4
      <3>2. j \in ReadFrom(s.samples[l]) \/ j = n + 1
        BY <2>4, <2>11
      <3>. QED  BY <1>5, <2>11, <3>1, <3>2
    <2>. QED  BY <2>5, <2>6, <2>7, <2>8, <2>10, <2>12 DEF FaithfulTo
  <1>11. CASE line = "Mem?"
    <2>1. new = [s EXCEPT !.current = FALSE]
      BY <1>11 DEF FreeStep
    <2>2. new.samples = s.samples /\ new.current = FALSE /\ SamplesTyped(new)
      BY <2>1 DEF FaithfulTo, SamplesTyped
    <2>. HIDE DEF new
    <2>3. Latest(0, text, n + 1)
      BY <1>11, <1>2 DEF Latest, Mems
    <2>4. TracksCurrent(new, text, n + 1) /\ InOrder(new)
      BY <1>4, <2>2, <2>3 DEF TracksCurrent, InOrder
    <2>5. KeepsMems(new, text, n + 1)
      BY <1>11, <1>4, <2>2 DEF KeepsMems
    <2>6. KeepsSwaps(new, text, n + 1)
      BY <1>11, <1>4, <2>2 DEF KeepsSwaps
    <2>. QED  BY <1>1, <1>3, <2>2, <2>4, <2>5, <2>6 DEF FaithfulTo
  <1>12. CASE line \notin {"Mem", "Mem?", "Swap"}
    <2>1. new = s
      BY <1>12 DEF FreeStep
    <2>2. Mems(text, n + 1) = Mems(text, n)
      BY <1>12, <1>2
    <2>. HIDE DEF new
    <2>3. TracksCurrent(s, text, n + 1)
      BY <2>2 DEF FaithfulTo, TracksCurrent, Latest
    <2>4. KeepsMems(s, text, n + 1)
      BY <1>12 DEF FaithfulTo, KeepsMems
    <2>5. KeepsSwaps(s, text, n + 1)
      <3>1. \A i \in 1 .. (n + 1) : text[i] = "Swap" => i \in 1..n
        BY <1>12
      <3>2. \A i, j \in 1..n : j \in i..n => j \in i .. (n + 1)
        OBVIOUS
      <3>3. \A j \in 1..n : NoMem(text, j, n) => NoMem(text, j, n + 1)
        BY <1>12 DEF NoMem
      <3>4. ASSUME NEW i \in 1 .. (n + 1), text[i] = "Swap"
            PROVE  \E k \in DOMAIN s.samples :
                     s.samples[k].swap \in i .. (n + 1) /\ NoMem(text, i, s.samples[k].swap)
        <4>1. PICK k \in DOMAIN s.samples :
                       s.samples[k].swap \in i..n /\ NoMem(text, i, s.samples[k].swap)
          BY <1>4, <3>1, <3>4 DEF KeepsSwaps
        <4>2. s.samples[k].swap \in i .. (n + 1)
          BY <4>1
        <4>. QED  BY <4>1, <4>2
      <3>5. ASSUME s.current, s.samples[top].swap # 0
            PROVE  NoMem(text, s.samples[top].swap, n + 1)
        <4>1. s.samples # <<>> /\ NoMem(text, s.samples[top].swap, n)
          BY <1>4, <3>5 DEF KeepsSwaps, TracksCurrent
        <4>2. top \in 1..top
          BY <1>1, <4>1 DEF Samples
        <4>3. s.samples[top].swap \in 1..n
          BY <1>3, <3>5, <4>2 DEF Told
        <4>. QED  BY <3>3, <4>1, <4>3
      <3>. QED  BY <3>4, <3>5 DEF KeepsSwaps
    <2>. QED  BY <1>1, <1>3, <2>1, <2>3, <2>4, <2>5 DEF FaithfulTo
  <1>. QED  BY <1>8, <1>9, <1>10, <1>11, <1>12

\* parse_free gives the samples of a text, whatever its length: every memory
\* line that can be read, no swap with the wrong one, none lost, all in the
\* order of the text (_parsers.py:77-108).
THEOREM ParseFreeFaithful ==
    ASSUME NEW text \in Seq(AnyLine)
    PROVE  Faithful(ParseFree(text), text)
  <1>. DEFINE m == Len(text)
  <1>1. m \in Nat /\ DOMAIN text = 1..m
    OBVIOUS
  <1>2. PICK f : Reads(f, text, m) /\ ParseFree(text) = f[m].samples
    BY <1>1, ParseFreeReads
  <1>. DEFINE S == {n \in Nat : n <= m => FaithfulTo(f[n], text, n)}
  <1>3. 0 \in S
    <2>1. f[0] = [samples |-> <<>>, current |-> FALSE]
      BY <1>1, <1>2 DEF Reads
    <2>2. f[0].samples = <<>> /\ f[0].current = FALSE /\ DOMAIN f[0].samples = {}
      BY <2>1
    <2>3. SamplesTyped(f[0])
      BY <2>1 DEF SamplesTyped, Samples
    <2>4. Mems(text, 0) = {}
      BY DEF Mems
    <2>. QED  BY <2>2, <2>3, <2>4 DEF FaithfulTo, TracksCurrent, KeepsMems, KeepsSwaps, InOrder, Latest
  <1>4. ASSUME NEW n \in S PROVE n + 1 \in S
    <2>. SUFFICES ASSUME n + 1 <= m PROVE FaithfulTo(f[n + 1], text, n + 1)
      OBVIOUS
    <2>1. f[n + 1] = FreeStep(f[n], text[n + 1], n + 1)
      <3>. DEFINE g == [i \in 0..m |-> IF i = 0 THEN [samples |-> <<>>, current |-> FALSE]
                                       ELSE FreeStep(f[i - 1], text[i], i)]
      <3>1. f = g
        BY <1>2 DEF Reads
      <3>2. n + 1 \in 0..m /\ n + 1 # 0 /\ (n + 1) - 1 = n
        BY <1>1
      <3>3. g[n + 1] = FreeStep(f[n], text[n + 1], n + 1)
        BY <3>2
      <3>. QED  BY <3>1, <3>3
    <2>. QED  BY <1>1, <2>1, FaithfulStep
  <1>. HIDE DEF S
  <1>5. m \in S
    BY <1>1, <1>3, <1>4, Induction DEF S
  <1>6. FaithfulTo(f[m], text, m)
    BY <1>1, <1>5 DEF S
  <1>. DEFINE p == f[m].samples
  <1>7. /\ \A i \in 1..m : text[i] = "Swap" =>
             \E k \in DOMAIN p : p[k].swap \in i..m /\ NoMem(text, i, p[k].swap)
        /\ \A i \in 1..m : text[i] = "Mem" => \E k \in DOMAIN p : p[k].mem = i
        /\ \A k \in DOMAIN p : Told(p[k], text, m)
        /\ \A k, l \in DOMAIN p : k < l =>
             \A i \in ReadFrom(p[k]), j \in ReadFrom(p[l]) : i < j
    BY <1>6 DEF FaithfulTo, KeepsMems, KeepsSwaps, InOrder
  <1>8. p = ParseFree(text)
    BY <1>2
  <1>. HIDE DEF p
  <1>9. ASSUME NEW k \in DOMAIN p, p[k].swap # 0
        PROVE  /\ text[p[k].swap] = "Swap"
               /\ LET before == {j \in 1 .. (p[k].swap - 1) : text[j] \in {"Mem", "Mem?"}}
                  IN  IF p[k].mem = 0 THEN \A j \in before : text[j] = "Mem" => \E l \in before : l > j
                      ELSE p[k].mem \in before /\ \A j \in before : j <= p[k].mem
    BY <1>7, <1>9 DEF Told, Latest, Mems
  <1>10. \A i \in DOMAIN text : text[i] = "Mem" <=> \E k \in DOMAIN p : p[k].mem = i
    BY <1>1, <1>7 DEF Told
  <1>11. \A k \in DOMAIN p : ReadFrom(p[k]) # {}
    BY <1>7 DEF Told, ReadFrom
  <1>12. ASSUME NEW i \in DOMAIN text, text[i] = "Swap"
         PROVE  \E k \in DOMAIN p :
                  /\ p[k].swap >= i
                  /\ \A j \in i .. p[k].swap : text[j] \notin {"Mem", "Mem?"}
    <2>1. PICK k \in DOMAIN p : p[k].swap \in i..m /\ NoMem(text, i, p[k].swap)
      BY <1>1, <1>7, <1>12
    <2>. QED  BY <1>1, <2>1 DEF NoMem
  <1>13. Faithful(p, text)
    <2>. SUFFICES /\ \A k \in DOMAIN p : p[k].swap # 0 =>
                       /\ text[p[k].swap] = "Swap"
                       /\ LET before == {j \in 1 .. (p[k].swap - 1) : text[j] \in {"Mem", "Mem?"}}
                          IN  IF p[k].mem = 0
                              THEN \A j \in before : text[j] = "Mem" => \E l \in before : l > j
                              ELSE p[k].mem \in before /\ \A j \in before : j <= p[k].mem
      BY <1>7, <1>10, <1>11, <1>12, Zenon DEF Faithful
    <2>. QED  BY <1>9, Zenon
  <1>. QED  BY <1>8, <1>13
=============================================================================

------------------------------ MODULE Sections ------------------------------
(***************************************************************************)
(* The text of a report made by one shell script of many probes            *)
(* (tools/triage.py, tools/facts.py): each probe prints a line ===name===  *)
(* and then its own lines.  A line is what the parsers tell apart: its     *)
(* kind, which names the line of a probe, and its number, 0 if it has      *)
(* none.  A text cut off in the middle of a line ends in a shorter line.   *)
(***************************************************************************)
EXTENDS Integers, Sequences

CONSTANT Tens  \* bound: powers of ten by which a number cut short may be divided

ASSUME TensAssumption == Tens \subseteq Nat \ {0}

Line(is, n) == [is |-> is, n |-> n]
Mark(name) == [is |-> "===", n |-> 0, name |-> name]
\* A line no parser finds anything in.
Piece == Line("piece", 0)
None == -1
\* What a source may say: a number, or nothing.
Reading == Nat \cup {None}

\* A probe: its section, and the lines it prints; a line if the source has it.
Probe(name, lines) == [name |-> name, lines |-> lines]
Said(is, n) == IF n = None THEN <<>> ELSE <<Line(is, n)>>

\* What is left of the digits of n when the last of them are missing.
Shortened(n) == {n \div k : k \in Tens} \ {0}
\* The same of n hundredths, written with two decimals: 12.34, 12.3, 12., 12, 1.
ShortenedCents(n) ==
  {n - (n % 10), n - (n % 100)} \cup {100 * k : k \in Shortened(n \div 100)}

Counts == {"nproc", "MemTotal", "MemAvailable", "SwapTotal", "SwapFree", "count", "max", "taint"}
Cents == {"load1", "psi_cpu", "psi_memory", "psi_io", "offset", "uptime"}
\* Lines told by how they begin.
Begun == {"unit", "oom", "Z", "D", "S"}
\* Lines that are all of a section, or its last word: none of its pieces is told.
Texts == {"virt", "container", "now", "user"}
\* Names: cut short they are others, maybe not a virtual machine's.
NameKinds == {"ID", "vendor", "product"}
\* What comes before the percentage in a row of df is a number too.
Blocks == Line("blocks", 1000)

\* The lines a line cut short may be; nothing of it left is no line.  Of
\* "Normal" a leap status that is not normal is left, of "docker yes" a no.
CutLines(l) ==
  {Piece} \cup
  CASE l.is = "===" -> {l}
    [] l.is \in Counts -> {l} \cup {Line(l.is, k) : k \in Shortened(l.n)}
    [] l.is \in Cents -> {l} \cup {Line(l.is, k) : k \in ShortenedCents(l.n)}
    [] l.is = "row" -> {l, Blocks}
    [] l.is \in Begun \cup Texts \cup {"nic"} -> {l}
    [] l.is = "leap" -> {l, Line("leap", 1)}
    [] l.is = "has" -> {l, Line("has not", l.n)}
    [] l.is = "has not" -> {l}
    [] l.is = "uname" -> {Line("uname", k) : k \in 1..l.n}
    [] l.is \in NameKinds -> {Line(l.is, k) : k \in 0..l.n}
    [] OTHER -> {}

\* Mutant: the next marker does not end the section.
OwnToTheEnd(text, m) == {i \in (m + 1) .. Len(text) : text[i].is # "==="}

\* The lines up to the next marker.
Own(text, m) ==
  {i \in (m + 1) .. Len(text) : \A k \in (m + 1)..i : text[k].is # "==="}

\* _split_sections: the lines of a section, of each of its occurrences.
Under(text, name) ==
  UNION {Own(text, m) : m \in {i \in DOMAIN text : text[i].is = "===" /\ text[i].name = name}}

\* The number of the first line of a kind, _first_int and the like.
First(text, lines, is) ==
  LET at == {i \in lines : text[i].is = is}
  IN  IF at = {} THEN None ELSE text[CHOOSE i \in at : \A j \in at : i <= j].n

HasLine(text, lines, is) == \E i \in lines : text[i].is = is
=============================================================================

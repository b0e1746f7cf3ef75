------------------------------- MODULE Tables -------------------------------
(***************************************************************************)
(* tools/_parsers.py: the tables of free and df read line by line.  A text *)
(* is a sequence of lines, each what the parsers tell apart: "Mem" and     *)
(* "Swap" lines of free with three numbers or more, "Mem?" and "Swap?"     *)
(* ones without, a "header" of df, a "row" with its six columns, "other"   *)
(* for the rest.  Blank lines, which both parsers skip, are no lines of a  *)
(* text.  A line of the result is named by its place in the text; 0 is no  *)
(* line.                                                                   *)
(***************************************************************************)
EXTENDS Integers, Sequences

FreeLines == {"Mem", "Mem?", "Swap", "Swap?", "other"}
DfLines == {"header", "row", "other"}

Sample(mem, swap) == [mem |-> mem, swap |-> swap]

\* The samples so far, the last of which is current or none is, after line i.
\* Mutant: a Mem line that cannot be read leaves the sample before it current.
FreeStepSticky(s, line, i) ==
  CASE line = "Mem" -> [samples |-> Append(s.samples, Sample(i, 0)), current |-> TRUE]
    [] line = "Swap" /\ s.current ->
         [s EXCEPT !.samples[Len(s.samples)].swap = i]
    [] line = "Swap" /\ ~s.current ->
         [samples |-> Append(s.samples, Sample(0, i)), current |-> TRUE]
    [] OTHER -> s

FreeStep(s, line, i) ==
  CASE line = "Mem" -> [samples |-> Append(s.samples, Sample(i, 0)), current |-> TRUE]
    [] line = "Mem?" -> [s EXCEPT !.current = FALSE]
    [] line = "Swap" /\ s.current ->
         [s EXCEPT !.samples[Len(s.samples)].swap = i]
    [] line = "Swap" /\ ~s.current ->
         [samples |-> Append(s.samples, Sample(0, i)), current |-> TRUE]
    [] OTHER -> s

\* parse_free
ParseFree(text) ==
  LET after[i \in 0 .. Len(text)] ==
        IF i = 0 THEN [samples |-> <<>>, current |-> FALSE]
        ELSE FreeStep(after[i - 1], text[i], i)
  IN  after[Len(text)].samples

\* parse_df: the rows after the header; it raises on any other first line.
DfRaises(text) == Len(text) > 0 /\ text[1] # "header"
ParseDf(text) == SelectSeq([i \in 1 .. Len(text) |-> i], LAMBDA i : i > 1 /\ text[i] = "row")

\* The lines a sample was read from.
ReadFrom(sample) == {sample.mem, sample.swap} \ {0}

\* What samples of a text of free are faithful to it: each readable Mem line
\* begins one, and a swap is that of the last Mem line before it, if that could
\* be read; no swap is left out but for a later one of the same sample; and the
\* samples come in the order of their lines, all of one before all of the next.
Faithful(samples, text) ==
  /\ \A i \in DOMAIN text : text[i] = "Mem" <=> \E k \in DOMAIN samples : samples[k].mem = i
  /\ \A i \in DOMAIN text : text[i] = "Swap" =>
       \E k \in DOMAIN samples :
         /\ samples[k].swap >= i
         /\ \A j \in i .. samples[k].swap : text[j] \notin {"Mem", "Mem?"}
  /\ \A k \in DOMAIN samples :
       LET mem == samples[k].mem
           swap == samples[k].swap
       IN  swap # 0 =>
             /\ text[swap] = "Swap"
             /\ LET before == {j \in 1 .. (swap - 1) : text[j] \in {"Mem", "Mem?"}}
                IN  IF mem = 0 THEN \A j \in before : text[j] = "Mem" => \E l \in before : l > j
                    ELSE mem \in before /\ \A j \in before : j <= mem
  /\ \A k, l \in DOMAIN samples :
       k < l => \A i \in ReadFrom(samples[k]), j \in ReadFrom(samples[l]) : i < j
  /\ \A k \in DOMAIN samples : ReadFrom(samples[k]) # {}
=============================================================================

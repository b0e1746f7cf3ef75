--------------------------- MODULE ResultsProofs ---------------------------
(***************************************************************************)
(* Theorems about Results, for every set of exit codes and texts of every  *)
(* length.                                                                 *)
(***************************************************************************)
EXTENDS Results, TablesProofs

\* The fields of a result.
ResultType ==
    [exit_code : ExitCodes \cup {0, NoCode}, stderr : SUBSET Phrases, truncated : BOOLEAN,
     stdout : {"text", "none"}, error_kind : Kinds \cup {"none"}, privilege_error : BOOLEAN,
     parsed : BOOLEAN, rows : {Rows, <<>>},
     parse_status : {"none", "ok", "error", "unsupported", "skipped_nonzero",
                     "skipped_truncated"}]
Askable == Modes \cup {"none", "junk"}

Typed ==
    /\ TypeOK
    /\ result \in ResultType
    /\ asked \in Askable /\ locked \in Askable
    /\ parser \in {"none", "free", "df"}

\* As the handler returned it.
Fresh ==
    /\ result.error_kind = "none" /\ ~result.privilege_error
    /\ ~result.parsed /\ result.parse_status = "none"

\* As _annotate_privilege leaves it.
Classified ==
    IF result.exit_code = NoCode THEN result.error_kind = "none" /\ ~result.privilege_error
    ELSE /\ result.error_kind = Classify(result.exit_code, result.stderr)
         /\ result.privilege_error <=> result.exit_code # 0 /\ Has(result.stderr, PrivRe)

\* The output is one the tool's parser takes.
Readable ==
    /\ result.exit_code \in {0, NoCode} /\ ~result.truncated
    /\ parser # "none" /\ ~Raises

\* As apply_output_mode leaves it.
Given ==
    /\ result.parsed <=> result.parse_status = "ok"
    /\ result.parsed => mode # "raw" /\ Readable /\ (result.stdout = "none" <=> mode = "parsed")
    /\ mode # "raw" /\ Readable => result.parsed \/ result.stdout = "none"

Stages ==
    /\ pc \in {"mode", "annotate", "refused"} => Fresh
    /\ pc = "refused" => Resolve(asked, locked) = "refused"
    /\ pc \in {"annotate", "apply", "answered"} =>
           mode = Resolve(asked, locked) /\ mode # "refused"
    /\ pc \in {"apply", "answered"} => Classified
    /\ pc = "apply" => ~result.parsed /\ result.parse_status = "none"
    /\ pc = "answered" => Given

IInv == Typed /\ Stages

-----------------------------------------------------------------------------
(* The operators.                                                          *)

\* classify_error names a kind.
LEMMA ClassifyTyped ==
    ASSUME NEW ec, NEW stderr
    PROVE  Classify(ec, stderr) \in Kinds
  BY DEF Classify, Kinds

\* What resolve_output_mode returns is a mode, or refused.
LEMMA ResolveTyped ==
    ASSUME NEW a \in Askable, NEW l \in Askable
    PROVE  /\ Resolve(a, l) \in Modes \cup {"refused"}
           /\ Resolve(a, l) = "refused" <=> "junk" \in {a, l}
           /\ "junk" \notin {a, l} =>
                Resolve(a, l) = IF l # "none" THEN l ELSE IF a # "none" THEN a ELSE "raw"
  BY DEF Resolve, Askable, Modes

\* What apply_output_mode changes, and what it leaves alone.
LEMMA ShapedTyped ==
    ASSUME NEW r \in ResultType, NEW m
    PROVE  /\ Shaped(r, m) \in ResultType
           /\ Shaped(r, m).exit_code = r.exit_code /\ Shaped(r, m).stderr = r.stderr
           /\ Shaped(r, m).truncated = r.truncated
           /\ Shaped(r, m).error_kind = r.error_kind
           /\ Shaped(r, m).privilege_error = r.privilege_error
  <1>1. CASE m = "raw"
    BY <1>1 DEF Shaped
  <1>2. CASE m # "raw" /\ (r.exit_code \notin {0, NoCode} \/ r.truncated)
    BY <1>2 DEF Shaped, ResultType
  <1>3. CASE m # "raw" /\ ~(r.exit_code \notin {0, NoCode} \/ r.truncated)
    BY <1>3 DEF Shaped, ResultType
  <1>. QED  BY <1>1, <1>2, <1>3

\* A result that comes out with structure, or with no text, has the reasons.
LEMMA ShapedMeans ==
    ASSUME NEW r \in ResultType, NEW m, ~r.parsed, r.parse_status = "none"
    PROVE  LET s == Shaped(r, m)
               readable == /\ r.exit_code \in {0, NoCode} /\ ~r.truncated
                           /\ parser # "none" /\ ~Raises
           IN  /\ s.parsed <=> s.parse_status = "ok"
               /\ s.parsed => /\ m # "raw" /\ readable /\ r.stdout = "text"
                              /\ s.stdout = IF m = "parsed" THEN "none" ELSE "text"
               /\ ~s.parsed => s.stdout = r.stdout
               /\ m # "raw" /\ readable => s.parsed \/ s.stdout = "none"
  <1>1. CASE m = "raw" \/ r.exit_code \notin {0, NoCode} \/ r.truncated
             \/ parser = "none" \/ r.stdout = "none" \/ Raises
    BY <1>1 DEF Shaped, ResultType
  <1>2. CASE /\ m # "raw" /\ r.exit_code \in {0, NoCode} /\ ~r.truncated
             /\ parser # "none" /\ r.stdout # "none" /\ ~Raises
    BY <1>2 DEF Shaped, ResultType
  <1>. QED  BY <1>1, <1>2

\* classify_error goes through the causes in their order.
LEMMA FirstCauseExists ==
    ASSUME result.error_kind = Classify(result.exit_code, result.stderr)
    PROVE  \E n \in 1..8 : /\ result.error_kind = Cause[n] /\ Holds(Cause[n])
                           /\ \A k \in 1..(n - 1) : ~Holds(Cause[k])
  <1>. DEFINE first(n) == /\ result.error_kind = Cause[n] /\ Holds(Cause[n])
                          /\ \A k \in 1..(n - 1) : ~Holds(Cause[k])
  <1>1. /\ Cause[1] = "ok" /\ Cause[2] = "timeout" /\ Cause[3] = "auth" /\ Cause[4] = "dns"
        /\ Cause[5] = "unreachable" /\ Cause[6] = "not_found" /\ Cause[7] = "privilege"
        /\ Cause[8] = "nonzero"
    BY DEF Cause
  <1>2. /\ Holds("ok") <=> result.exit_code = 0
        /\ Holds("timeout") <=> result.exit_code = 124
        /\ Holds("auth") <=> Has(result.stderr, AuthRe)
        /\ Holds("dns") <=> Has(result.stderr, DnsRe)
        /\ Holds("unreachable") <=> Has(result.stderr, UnreachRe)
        /\ Holds("not_found") <=> result.exit_code = 127 \/ Has(result.stderr, NotFoundRe)
        /\ Holds("privilege") <=> Has(result.stderr, PrivRe)
        /\ Holds("nonzero")
    BY DEF Holds
  <1>3. CASE Holds("ok")
    <2>. first(1)
      BY <1>1, <1>2, <1>3 DEF Classify
    <2>. QED  OBVIOUS
  <1>4. CASE ~Holds("ok") /\ Holds("timeout")
    <2>. first(2)
      BY <1>1, <1>2, <1>4 DEF Classify
    <2>. QED  OBVIOUS
  <1>5. CASE ~Holds("ok") /\ ~Holds("timeout") /\ Holds("auth")
    <2>. first(3)
      BY <1>1, <1>2, <1>5 DEF Classify
    <2>. QED  OBVIOUS
  <1>6. CASE ~Holds("ok") /\ ~Holds("timeout") /\ ~Holds("auth") /\ Holds("dns")
    <2>. first(4)
      BY <1>1, <1>2, <1>6 DEF Classify
    <2>. QED  OBVIOUS
  <1>7. CASE ~Holds("ok") /\ ~Holds("timeout") /\ ~Holds("auth") /\ ~Holds("dns")
    <2>1. CASE Holds("unreachable")
      <3>. first(5)
        BY <1>1, <1>2, <1>7, <2>1 DEF Classify
      <3>. QED  OBVIOUS
    <2>2. CASE ~Holds("unreachable") /\ Holds("not_found")
      <3>. first(6)
        BY <1>1, <1>2, <1>7, <2>2 DEF Classify
      <3>. QED  OBVIOUS
    <2>3. CASE ~Holds("unreachable") /\ ~Holds("not_found") /\ Holds("privilege")
      <3>. first(7)
        BY <1>1, <1>2, <1>7, <2>3 DEF Classify
      <3>. QED  OBVIOUS
    <2>4. CASE ~Holds("unreachable") /\ ~Holds("not_found") /\ ~Holds("privilege")
      <3>. first(8)
        BY <1>1, <1>2, <1>7, <2>4 DEF Classify
      <3>. QED  OBVIOUS
    <2>. QED  BY <2>1, <2>2, <2>3, <2>4
  <1>. QED  BY <1>3, <1>4, <1>5, <1>6, <1>7

-----------------------------------------------------------------------------
(* The invariant is inductive.                                             *)

LEMMA IInvInit == Init => IInv
  <1>. SUFFICES ASSUME Init PROVE IInv
    OBVIOUS
  <1>1. /\ Blank.error_kind = "none" /\ ~Blank.privilege_error
        /\ ~Blank.parsed /\ Blank.parse_status = "none"
        /\ Blank \in ResultType
    <2>1. {} \in SUBSET Phrases
      OBVIOUS
    <2>. QED  BY <2>1 DEF Blank, ResultType
  <1>2. result \in ResultType /\ Fresh
    <2>1. CASE result = Blank
      BY <1>1, <2>1 DEF Fresh
    <2>2. CASE result # Blank
      <3>1. PICK ec \in ExitCodes \cup {NoCode}, err \in SUBSET Phrases, cut \in BOOLEAN,
                 out \in {"text", "none"} :
                 result = [Blank EXCEPT !.exit_code = ec, !.stderr = err, !.truncated = cut,
                                        !.stdout = out]
        BY <2>2 DEF Init
      <3>2. /\ result.error_kind = "none" /\ result.privilege_error = FALSE
            /\ result.parsed = FALSE /\ result.parse_status = "none"
        BY <3>1 DEF Blank
      <3>3. result \in ResultType
        BY <3>1 DEF Blank, ResultType
      <3>. QED  BY <3>2, <3>3 DEF Fresh
    <2>. QED  BY <2>1, <2>2
  <1>3. TypeOK
    BY <1>2 DEF Init, TypeOK, ResultType, Modes, Kinds
  <1>4. Typed
    BY <1>2, <1>3 DEF Init, Typed, Askable
  <1>5. Stages
    BY <1>2 DEF Init, Stages
  <1>. QED  BY <1>4, <1>5 DEF IInv

LEMMA ResolveModeStep == IInv /\ ResolveMode => IInv'
  <1>. SUFFICES ASSUME IInv, ResolveMode PROVE IInv'
    OBVIOUS
  <1>1. UNCHANGED <<asked, locked, parser, lines, result, Rows>>
    BY DEF ResolveMode, Rows
  <1>2. Fresh'
    BY <1>1 DEF IInv, Stages, ResolveMode, Fresh
  <1>3. result' \in ResultType'
    BY <1>1 DEF IInv, Typed, ResultType
  <1>4. Typed'
    BY <1>1, <1>3, ResolveTyped DEF IInv, Typed, TypeOK, ResolveMode
  <1>5. Stages'
    BY <1>1, <1>2 DEF ResolveMode, Stages
  <1>. QED  BY <1>4, <1>5 DEF IInv

LEMMA AnnotateStep == IInv /\ Annotate => IInv'
  <1>. SUFFICES ASSUME IInv, Annotate PROVE IInv'
    OBVIOUS
  <1>1. UNCHANGED <<asked, locked, parser, lines, mode, Rows>> /\ pc' = "apply"
    BY DEF Annotate, Rows
  <1>2. result \in ResultType /\ Fresh
    BY DEF IInv, Typed, Stages, Annotate
  <1>3. /\ result' \in ResultType /\ Classified'
        /\ ~result'.parsed /\ result'.parse_status = "none"
    BY <1>2, ClassifyTyped DEF Annotate, Annotated, Classified, Fresh, ResultType
  <1>4. Typed'
    BY <1>1, <1>3 DEF IInv, Typed, TypeOK, ResultType
  <1>5. Stages'
    BY <1>1, <1>3 DEF IInv, Annotate, Stages
  <1>. QED  BY <1>4, <1>5 DEF IInv

LEMMA ApplyStep == IInv /\ Apply => IInv'
  <1>. SUFFICES ASSUME IInv, Apply PROVE IInv'
    OBVIOUS
  <1>1. UNCHANGED <<asked, locked, parser, lines, mode, Rows, Raises>> /\ pc' = "answered"
    BY DEF Apply, Rows, Raises
  <1>2. /\ result \in ResultType /\ Classified
        /\ ~result.parsed /\ result.parse_status = "none"
        /\ result' = Shaped(result, mode)
    BY DEF IInv, Typed, Stages, Apply
  <1>3. /\ result' \in ResultType
        /\ result'.exit_code = result.exit_code /\ result'.stderr = result.stderr
        /\ result'.truncated = result.truncated /\ result'.error_kind = result.error_kind
        /\ result'.privilege_error = result.privilege_error
    BY <1>2, ShapedTyped
  <1>4. Classified'
    BY <1>2, <1>3 DEF Classified
  <1>5. Given'
    <2>1. Readable' <=> /\ result.exit_code \in {0, NoCode} /\ ~result.truncated
                        /\ parser # "none" /\ ~Raises
      BY <1>1, <1>3 DEF Readable
    <2>. QED  BY <1>1, <1>2, <2>1, ShapedMeans DEF Given
  <1>6. Typed'
    BY <1>1, <1>3 DEF IInv, Typed, TypeOK, ResultType
  <1>7. Stages'
    BY <1>1, <1>4, <1>5 DEF IInv, Apply, Stages
  <1>. QED  BY <1>6, <1>7 DEF IInv

LEMMA StutterStep == IInv /\ UNCHANGED vars => IInv'
  <1>. SUFFICES ASSUME IInv, UNCHANGED vars PROVE IInv'
    OBVIOUS
  <1>1. UNCHANGED <<asked, locked, parser, lines, pc, mode, result, Rows, Raises>>
    BY DEF vars, Rows, Raises
  <1>2. Typed'
    BY <1>1 DEF IInv, Typed, TypeOK, ResultType
  <1>3. Stages'
    BY <1>1 DEF IInv, Stages, Fresh, Classified, Given, Readable
  <1>. QED  BY <1>2, <1>3 DEF IInv

\* A result is fresh, then classified, then given its shape, in the mode that
\* was resolved first (server.py:289-317).
THEOREM IInvHolds == Spec => []IInv
  <1>1. IInv /\ [Next]_vars => IInv'
    BY ResolveModeStep, AnnotateStep, ApplyStep, StutterStep DEF Next
  <1>. QED  BY IInvInit, <1>1, PTL DEF Spec

-----------------------------------------------------------------------------
(* What follows from it.                                                   *)

\* Every variable keeps its kind of value, for every set of exit codes and
\* texts of every length (server.py:68-130).
THEOREM TypeCorrect == Spec => []TypeOK
  <1>1. IInv => TypeOK
    BY DEF IInv, Typed
  <1>. QED  BY <1>1, IInvHolds, PTL

\* The shape of an answer is the one locked, else asked for; it has structure
\* exactly where its output can be read (validate.py:259-269,
\* server.py:101-130).
THEOREM ShapeIsLocked == Spec => []ShapeAsLocked
  <1>1. IInv => ShapeAsLocked
    <2>. SUFFICES ASSUME IInv PROVE ShapeAsLocked
      OBVIOUS
    <2>1. /\ Resolve(asked, locked) = "refused" <=> "junk" \in {asked, locked}
          /\ "junk" \notin {asked, locked} =>
               Resolve(asked, locked)
                 = IF locked # "none" THEN locked ELSE IF asked # "none" THEN asked ELSE "raw"
      BY ResolveTyped DEF IInv, Typed
    <2>2. pc = "refused" <=> pc # "mode" /\ "junk" \in {asked, locked}
      BY <2>1 DEF IInv, Typed, TypeOK, Stages
    <2>3. CASE pc = "answered"
      <3>1. Given /\ mode = Resolve(asked, locked) /\ "junk" \notin {asked, locked}
        BY <2>1, <2>3 DEF IInv, Stages
      <3>2. Readable <=> /\ result.exit_code \in {0, NoCode} /\ ~result.truncated
                         /\ parser = "free" \/ (parser = "df" /\ ~DfRaises(lines))
        BY DEF IInv, Typed, Readable, Raises
      <3>. QED  BY <2>1, <2>2, <3>1, <3>2 DEF Given, ShapeAsLocked
    <2>. QED  BY <2>2, <2>3 DEF ShapeAsLocked
  <1>. QED  BY <1>1, IInvHolds, PTL

\* A failure is put down to the first cause that holds (server.py:68-98).
THEOREM CauseIsFirst == Spec => []FirstCause
  <1>1. IInv => FirstCause
    <2>. SUFFICES ASSUME IInv, pc \in {"apply", "answered"}, result.exit_code # NoCode
                  PROVE  /\ \E n \in 1..8 : /\ result.error_kind = Cause[n] /\ Holds(Cause[n])
                                            /\ \A k \in 1..(n - 1) : ~Holds(Cause[k])
                         /\ result.error_kind = "privilege" => result.privilege_error
                         /\ result.privilege_error => result.error_kind # "ok"
      BY DEF IInv, Stages, Classified, FirstCause
    <2>1. /\ result.error_kind = Classify(result.exit_code, result.stderr)
          /\ result.privilege_error <=> result.exit_code # 0 /\ Has(result.stderr, PrivRe)
      BY DEF IInv, Stages, Classified
    <2>2. /\ result.error_kind = "privilege" => result.privilege_error
          /\ result.privilege_error => result.error_kind # "ok"
      BY <2>1 DEF Classify
    <2>3. \E n \in 1..8 : /\ result.error_kind = Cause[n] /\ Holds(Cause[n])
                          /\ \A k \in 1..(n - 1) : ~Holds(Cause[k])
      BY <2>1, FirstCauseExists
    <2>. QED  BY <2>2, <2>3
  <1>. QED  BY <1>1, IInvHolds, PTL

\* The text of a result is taken out only when its structure is put in
\* (server.py:122-130).
THEOREM NeitherIsLost == Spec => TextOrStructure
  <1>1. IInv /\ [Next]_vars =>
          [/\ result.stdout # result'.stdout =>
                 result'.parsed /\ mode = "parsed" /\ result'.parse_status = "ok"
           /\ pc' = "answered" => (result'.parsed <=> result'.parse_status = "ok")]_vars
    <2>. SUFFICES ASSUME IInv, Next
                  PROVE  /\ result.stdout # result'.stdout =>
                              result'.parsed /\ mode = "parsed" /\ result'.parse_status = "ok"
                         /\ pc' = "answered" => (result'.parsed <=> result'.parse_status = "ok")
      OBVIOUS
    <2>1. CASE ResolveMode
      BY <2>1 DEF ResolveMode
    <2>2. CASE Annotate
      BY <2>2 DEF IInv, Typed, Annotate, Annotated, ResultType
    <2>3. CASE Apply
      <3>1. /\ result \in ResultType /\ ~result.parsed /\ result.parse_status = "none"
            /\ result' = Shaped(result, mode)
        BY <2>3 DEF IInv, Typed, Stages, Apply
      <3>. QED  BY <3>1, ShapedMeans DEF ResultType
    <2>. QED  BY <2>1, <2>2, <2>3 DEF Next
  <1>. QED  BY <1>1, IInvHolds, PTL DEF Spec, TextOrStructure

\* Structure is what the parser makes of the output.
RowsRead == lines \in Seq(AnyLine) /\ (result.parsed => result.rows = Rows)

\* What annotating a result and applying a mode do to its structure.
LEMMA RowsStep ==
    ASSUME NEW r \in ResultType, NEW m
    PROVE  /\ Annotated(r).parsed = r.parsed /\ Annotated(r).rows = r.rows
           /\ Shaped(r, m).parsed => (r.parsed /\ Shaped(r, m).rows = r.rows) \/ Shaped(r, m).rows = Rows
  BY DEF Annotated, Shaped, ResultType

\* Structure is that of the output at every moment (server.py:105-130).
LEMMA RowsReadHolds == Spec => []RowsRead
  <1>1. Init => RowsRead
    <2>. SUFFICES ASSUME Init PROVE RowsRead
      OBVIOUS
    <2>1. lines \in Seq(AnyLine)
      <3>1. CASE lines \in {<<"other">>, <<"header", "row">>}
        <4>1. "other" \in AnyLine /\ "header" \in AnyLine /\ "row" \in AnyLine
          BY DEF AnyLine, FreeLines, DfLines
        <4>2. <<"other">> \in Seq(AnyLine)
          BY <4>1
        <4>3. <<"header", "row">> \in Seq(AnyLine)
          BY <4>1
        <4>. QED  BY <3>1, <4>2, <4>3, Zenon
      <3>2. CASE lines \in Texts
        <4>1. PICK n \in 0..MaxLines : lines \in [1..n -> AnyLine]
          BY <3>2 DEF Texts, AnyLine
        <4>. QED  BY <4>1, MaxLinesAssumption
      <3>. QED  BY <3>1, <3>2 DEF Init
    <2>2. ~result.parsed
      BY IInvInit DEF Init, IInv, Stages, Fresh
    <2>. QED  BY <2>1, <2>2 DEF RowsRead
  <1>2. IInv /\ RowsRead /\ [Next]_vars => RowsRead'
    <2>. SUFFICES ASSUME IInv, RowsRead, [Next]_vars PROVE RowsRead'
      OBVIOUS
    <2>1. UNCHANGED <<parser, lines, Rows>> /\ result \in ResultType
      BY DEF IInv, Typed, Next, ResolveMode, Annotate, Apply, vars, Rows
    <2>2. CASE Annotate
      BY <2>1, <2>2, RowsStep DEF Annotate, RowsRead
    <2>3. CASE Apply
      BY <2>1, <2>3, RowsStep DEF Apply, RowsRead
    <2>4. CASE ResolveMode \/ UNCHANGED vars
      BY <2>1, <2>4 DEF ResolveMode, vars, RowsRead
    <2>. QED  BY <2>2, <2>3, <2>4 DEF Next
  <1>. QED  BY <1>1, <1>2, IInvHolds, PTL DEF Spec

\* The samples of free that a client is given are those of the output, each
\* with its own swap and in the order of the lines, however long the output is
\* (_parsers.py:77-108).
THEOREM SamplesAreFaithful == Spec => []SamplesFaithful
  <1>1. RowsRead => SamplesFaithful
    BY ParseFreeFaithful DEF RowsRead, Rows, SamplesFaithful
  <1>. QED  BY <1>1, RowsReadHolds, PTL
=============================================================================

------------------------------ MODULE Results ------------------------------
(***************************************************************************)
(* What a handler's result becomes on its way to the client                *)
(* (src/linux_info_mcp/server.py): resolve_output_mode, then               *)
(* _annotate_privilege with classify_error, then apply_output_mode.  One   *)
(* call of one handler, for every result a handler may return.             *)
(*                                                                         *)
(* stderr is the set of the known phrases it has in it; the regular        *)
(* expressions of server.py are the sets of phrases they match.  One of    *)
(* these phrases matches two of them.  stdout is its lines, as the parsers *)
(* of Tables see them, or something that is not text.                      *)
(***************************************************************************)
EXTENDS Tables

CONSTANTS
    ExitCodes,  \* exit codes a command ends with
    MaxLines    \* bound: lines of an output that is parsed

ASSUME ExitCodesAssumption == ExitCodes \subseteq 0..255
ASSUME MaxLinesAssumption == MaxLines \in Nat

VARIABLES
    asked,   \* the output_mode argument
    locked,  \* LINUX_INFO_OUTPUT_MODE
    parser,  \* of the tool: "none", "free" or "df"
    lines,   \* of stdout
    pc,      \* "mode", "annotate", "apply", then "answered" or "refused"
    mode,    \* what resolve_output_mode returned
    result   \* the handler's result, changed in place

vars == <<asked, locked, parser, lines, pc, mode, result>>

Modes    == {"raw", "parsed", "both"}
NoCode   == -1  \* the result has no exit_code, or one that is no integer
AuthRe   == {"permission denied (", "authentication failed"}
DnsRe    == {"could not resolve hostname"}
UnreachRe == {"connection refused"}
NotFoundRe == {"command not found"}
PrivRe   == {"permission denied (", "permission denied", "must be root"}
Phrases  == AuthRe \cup DnsRe \cup UnreachRe \cup NotFoundRe \cup PrivRe

Kinds == {"ok", "timeout", "auth", "dns", "unreachable", "not_found", "privilege", "nonzero"}

Texts == {t \in UNION {[1..n -> FreeLines \cup DfLines] : n \in 0..MaxLines} :
              \/ \A i \in DOMAIN t : t[i] \in FreeLines
              \/ \A i \in DOMAIN t : t[i] \in DfLines}
Blank == [exit_code |-> 0, stderr |-> {}, truncated |-> FALSE, stdout |-> "text",
          error_kind |-> "none", privilege_error |-> FALSE, parsed |-> FALSE, rows |-> <<>>,
          parse_status |-> "none"]

\* "none": the key is not there.  Of a result either stderr or stdout varies.
Init ==
    /\ asked \in Modes \cup {"none", "junk"}
    /\ locked \in Modes \cup {"none", "junk"}
    /\ parser \in {"none", "free", "df"}
    /\ pc = "mode"
    /\ mode = "none"
    /\ \/ /\ \E ec \in ExitCodes \cup {NoCode}, err \in SUBSET Phrases, cut \in BOOLEAN,
               out \in {"text", "none"} :
             result = [Blank EXCEPT !.exit_code = ec, !.stderr = err, !.truncated = cut,
                                    !.stdout = out]
          /\ lines \in {<<"other">>, <<"header", "row">>}
       \/ result = Blank /\ lines \in Texts

-----------------------------------------------------------------------------
(* Operators.                                                              *)

\* Mutant: the lock is taken as it is.
ResolveUnchecked(a, l) ==
    IF l # "none" THEN l ELSE IF a # "none" THEN a ELSE "raw"

\* resolve_output_mode
Resolve(a, l) ==
    IF a = "junk" \/ l = "junk" THEN "refused"
    ELSE IF l # "none" THEN l
    ELSE IF a # "none" THEN a ELSE "raw"

Has(stderr, re) == stderr \cap re # {}

\* Mutant: privilege looked for before the failures of ssh.
ClassifyPrivFirst(ec, stderr) ==
    IF ec = 0 THEN "ok" ELSE IF ec = 124 THEN "timeout"
    ELSE IF Has(stderr, PrivRe) THEN "privilege"
    ELSE IF Has(stderr, AuthRe) THEN "auth"
    ELSE IF Has(stderr, DnsRe) THEN "dns"
    ELSE IF Has(stderr, UnreachRe) THEN "unreachable"
    ELSE IF ec = 127 \/ Has(stderr, NotFoundRe) THEN "not_found" ELSE "nonzero"

\* classify_error
Classify(ec, stderr) ==
    IF ec = 0 THEN "ok" ELSE IF ec = 124 THEN "timeout"
    ELSE IF Has(stderr, AuthRe) THEN "auth"
    ELSE IF Has(stderr, DnsRe) THEN "dns"
    ELSE IF Has(stderr, UnreachRe) THEN "unreachable"
    ELSE IF ec = 127 \/ Has(stderr, NotFoundRe) THEN "not_found"
    ELSE IF Has(stderr, PrivRe) THEN "privilege" ELSE "nonzero"

\* parse_free never raises.
Raises == parser = "df" /\ DfRaises(lines)
Rows == IF parser = "free" THEN ParseFree(lines) ELSE ParseDf(lines)

\* _annotate_privilege
Annotated(r) ==
    IF r.exit_code = NoCode THEN r
    ELSE [r EXCEPT !.error_kind = Classify(r.exit_code, r.stderr),
                   !.privilege_error = r.exit_code # 0 /\ Has(r.stderr, PrivRe)]

\* Mutants: stdout is dropped before the parser is tried; truncated output is
\* parsed like any other.
ShapedDropFirst(r, m) ==
    IF m = "raw" THEN r
    ELSE IF r.exit_code \notin {0, NoCode} THEN [r EXCEPT !.parse_status = "skipped_nonzero"]
    ELSE IF r.truncated THEN [r EXCEPT !.parse_status = "skipped_truncated"]
    ELSE IF parser = "none" \/ r.stdout = "none" THEN [r EXCEPT !.parse_status = "unsupported"]
    ELSE LET s == [r EXCEPT !.stdout = IF m = "parsed" THEN "none" ELSE @] IN
         IF Raises THEN [s EXCEPT !.parse_status = "error"]
         ELSE [s EXCEPT !.parsed = TRUE, !.rows = Rows, !.parse_status = "ok"]
ShapedPartial(r, m) ==
    IF m = "raw" THEN r
    ELSE IF r.exit_code \notin {0, NoCode} THEN [r EXCEPT !.parse_status = "skipped_nonzero"]
    ELSE IF parser = "none" \/ r.stdout = "none" THEN [r EXCEPT !.parse_status = "unsupported"]
    ELSE IF Raises THEN [r EXCEPT !.parse_status = "error"]
    ELSE [r EXCEPT !.parsed = TRUE, !.rows = Rows, !.parse_status = "ok",
                   !.stdout = IF m = "parsed" THEN "none" ELSE @]

\* apply_output_mode
Shaped(r, m) ==
    IF m = "raw" THEN r
    ELSE IF r.exit_code \notin {0, NoCode} THEN [r EXCEPT !.parse_status = "skipped_nonzero"]
    ELSE IF r.truncated THEN [r EXCEPT !.parse_status = "skipped_truncated"]
    ELSE IF parser = "none" \/ r.stdout = "none" THEN [r EXCEPT !.parse_status = "unsupported"]
    ELSE IF Raises THEN [r EXCEPT !.parse_status = "error"]
    ELSE [r EXCEPT !.parsed = TRUE, !.rows = Rows, !.parse_status = "ok",
                   !.stdout = IF m = "parsed" THEN "none" ELSE @]

-----------------------------------------------------------------------------
(* The steps of a call.                                                    *)

ResolveMode ==
    /\ pc = "mode"
    /\ IF Resolve(asked, locked) = "refused"
       THEN pc' = "refused" /\ UNCHANGED mode
       ELSE pc' = "annotate" /\ mode' = Resolve(asked, locked)
    /\ UNCHANGED <<asked, locked, parser, lines, result>>

Annotate ==
    /\ pc = "annotate"
    /\ result' = Annotated(result)
    /\ pc' = "apply"
    /\ UNCHANGED <<asked, locked, parser, lines, mode>>

Apply ==
    /\ pc = "apply"
    /\ result' = Shaped(result, mode)
    /\ pc' = "answered"
    /\ UNCHANGED <<asked, locked, parser, lines, mode>>

Next == ResolveMode \/ Annotate \/ Apply

Spec == Init /\ [][Next]_vars

-----------------------------------------------------------------------------
(* What the client can rely on.                                            *)

\* The answer has the shape of the lock, if there is one, else of the argument,
\* else raw; a bad argument is refused even where the lock would win
\* (validate.py:259-269).  It has structure exactly where that shape has some,
\* the command ended well, and its output is text, whole and of a form that
\* the tool's parser takes (server.py:105-130); only "parsed" then leaves the
\* text out.
ShapeAsLocked ==
    LET shape == IF locked # "none" THEN locked ELSE IF asked # "none" THEN asked ELSE "raw"
        readable == /\ result.exit_code \in {0, NoCode} /\ ~result.truncated
                    /\ parser = "free" \/ (parser = "df" /\ ~DfRaises(lines))
    IN
    /\ pc = "refused" <=> pc # "mode" /\ "junk" \in {asked, locked}
    /\ pc = "answered" =>
         /\ result.parsed => shape # "raw" /\ readable
         /\ shape # "raw" /\ readable => result.parsed \/ result.stdout = "none"
         /\ result.parsed => (result.stdout = "none" <=> shape = "parsed")

\* The samples a client is given of free are those of the text, in its order: no
\* swap is attached to another sample's memory (_parsers.py:98-106).
SamplesFaithful ==
    result.parsed /\ parser = "free" => Faithful(result.rows, lines)

\* The order of causes: a failure of ssh itself comes before one of the
\* command, whatever else stderr has in it.
Cause == <<"ok", "timeout", "auth", "dns", "unreachable", "not_found", "privilege", "nonzero">>
Holds(kind) ==
    LET ec == result.exit_code IN
    CASE kind = "ok" -> ec = 0
      [] kind = "timeout" -> ec = 124
      [] kind = "auth" -> Has(result.stderr, AuthRe)
      [] kind = "dns" -> Has(result.stderr, DnsRe)
      [] kind = "unreachable" -> Has(result.stderr, UnreachRe)
      [] kind = "not_found" -> ec = 127 \/ Has(result.stderr, NotFoundRe)
      [] kind = "privilege" -> Has(result.stderr, PrivRe)
      [] kind = "nonzero" -> TRUE

\* A result with an exit code is put down to the first cause that holds; only
\* one that failed can be short of a privilege (server.py:68-98).
FirstCause ==
    pc \in {"apply", "answered"} =>
        \/ result.exit_code = NoCode /\ result.error_kind = "none"
        \/ /\ result.exit_code # NoCode
           /\ \E n \in 1..8 : /\ result.error_kind = Cause[n] /\ Holds(Cause[n])
                              /\ \A k \in 1..(n - 1) : ~Holds(Cause[k])
           /\ result.error_kind = "privilege" => result.privilege_error
           /\ result.privilege_error => result.error_kind # "ok"

\* The text is taken out of a result only when its structure is put in, and
\* the status says so (server.py:122-130).
TextOrStructure ==
    [][/\ result.stdout # result'.stdout =>
              result'.parsed /\ mode = "parsed" /\ result'.parse_status = "ok"
       /\ pc' = "answered" => (result'.parsed <=> result'.parse_status = "ok")]_vars

\* Every variable keeps its kind of value.
TypeOK ==
    /\ pc \in {"mode", "annotate", "apply", "answered", "refused"}
    /\ mode \in Modes \cup {"none"}
    /\ result.error_kind \in Kinds \cup {"none"}
    /\ result.privilege_error \in BOOLEAN /\ result.parsed \in BOOLEAN
    /\ result.parse_status \in {"none", "ok", "error", "unsupported",
                                "skipped_nonzero", "skipped_truncated"}

\* SPEC.md:1294 - error_kind is "privilege" on the same condition that sets
\* privilege_error.
SameCondition ==
    pc = "answered" => (result.error_kind = "privilege" <=> result.privilege_error)
=============================================================================

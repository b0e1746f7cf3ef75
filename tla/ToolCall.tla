------------------------------ MODULE ToolCall ------------------------------
(***************************************************************************)
(* One call of one tool, from the arguments to the handler's result: the   *)
(* handler checks them, its builder words the command, the command runs on *)
(* the host, most often as one program (the source), sometimes with its    *)
(* output piped through another, and the result is made of what comes      *)
(* back.  The tools are the rows of Tools; the processes and threads of    *)
(* run_ssh are those of RunSsh, here one step: what it may lose when its   *)
(* readers are slow, and how it cuts text at the cap, are said there.      *)
(***************************************************************************)
EXTENDS Tools, FiniteSets

CONSTANTS
    MaxGiven,  \* bound: optional arguments given in one call
    Reach,     \* bound: values tried of a range with no end, bytes a source yields
    MaxBytes   \* values of LINUX_INFO_MAX_BYTES

ASSUME BoundsAssumption ==
    MaxGiven \in Nat /\ Reach \in Nat \ {0} /\ MaxBytes \subseteq Nat \ {0}

VARIABLES
    tool, given,     \* the call: name and arguments
    sudo, maxBytes,  \* LINUX_INFO_SUDO with what sudoers say of it; the cap
    pc,              \* "given", "run", "pipe", "sent", then "answered" or "refused"
    words,           \* what the command says, "sudo" among it
    source,          \* how the source ended: exit, err (its complaints), n (bytes put out; of text, 0 or 1)
    sent,            \* what came back: the same, and cut
    answer           \* the handler's result: exit, err, n (bytes), truncated

vars == <<tool, given, sudo, maxBytes, pc, words, source, sent, answer>>

This == Catalogue[tool]
Nothing == [exit |-> 0, err |-> {}, n |-> 0]
Complaints == {"permission denied", "command not found", "other"}
ExitCodes == {0, 1, 124, 127}

-----------------------------------------------------------------------------
(* Operators.                                                              *)

\* validate_codec, validate_archive_format and the rest look at what is said
\* and at the names chosen.
Saying == {a \in DOMAIN given : Says(This.args[a], given[a])}
On == Saying \cup {given[a].is : a \in DOMAIN given}

\* Values worth giving: the ends of a range and one past them; a word some
\* rule of the tool names, one that none names, one that says nothing, junk.
Named(t) == UNION ({r.when \cup r.forbids \cup r.demands \cup r.oneOf : r \in t.rules}
                   \cup {o.with \cup o.without : o \in t.only})
Values(t, k) ==
    LET ends == IF k.open THEN (k.lo - 1) .. (k.lo + Reach)
                ELSE IF k.lo > k.hi THEN {} ELSE {k.lo - 1, k.lo, k.hi, k.hi + 1}
        plain == k.says \ Named(t)
    IN  {Number(i) : i \in ends}
        \cup {Word(w) : w \in (k.takes \cap Named(t)) \cup (k.takes \ k.says) \cup {"junk"}
                              \cup IF plain = {} THEN {} ELSE {CHOOSE w \in plain : TRUE}}

\* Mutant: the length of base64 is taken to be four thirds, no more.
CapNoPadding(mb) == LET room == (mb * 3) \div 4 IN IF room > 1 THEN room ELSE 1

\* binary_length_cap
BinaryLengthCap(mb) == LET room == ((mb - 8) * 3) \div 4 IN IF room > 1 THEN room ELSE 1

\* The length of base64 -w 0.
Encoded(n) == 4 * ((n + 2) \div 3)
\* What b64decode makes of the first m characters that encode n bytes: it
\* raises unless they are whole groups of four.
Decoded(m, n) == IF m = Encoded(n) THEN n ELSE 3 * (m \div 4)
Decodes(m) == m % 4 = 0

\* The program the source goes through, if there is one: what an argument in
\* the command asks for, or every call of the tool.
PipeOf(t, on) ==
    LET to == {p.to : p \in {q \in t.pipes : q.by = "" \/ q.by \in on}}
    IN  IF to = {} THEN "none" ELSE CHOOSE p \in to : TRUE
Piped == PipeOf(This, words)

Accepted ==
    /\ This.needs \subseteq DOMAIN given
    /\ \A a \in DOMAIN given : Takes(This.args[a], given[a])
    /\ \A r \in This.rules : ~Broken(r, On)
    /\ tool = "read_binary" => given["length"].n <= BinaryLengthCap(maxBytes)

\* What the builder puts in the command.
Worded ==
    LET reaches(w) == \A o \in This.only :
                        o.word = w => o.with \subseteq On /\ o.without \cap On = {}
    IN  {w \in Saying \cup This.always : reaches(w)}
        \cup IF This.root /\ sudo # "off" THEN {"sudo"} ELSE {}

-----------------------------------------------------------------------------
(* The steps of a call.                                                    *)

Init ==
    /\ tool \in DOMAIN Catalogue
    /\ given = [a \in {} |-> Word("junk")]
    /\ sudo \in IF This.root THEN {"off", "granted", "denied"} ELSE {"off"}
    /\ maxBytes \in {mb \in MaxBytes : Pipe("", "base64") \in This.pipes
                                        \/ Pipe("binary", "base64") \in This.pipes
                                        \/ \A b \in MaxBytes : mb <= b}
    /\ pc = "given"
    /\ words = {}
    /\ source = Nothing
    /\ sent = [exit |-> 0, err |-> {}, n |-> 0, cut |-> FALSE]
    /\ answer = [exit |-> 0, err |-> {}, n |-> 0, truncated |-> FALSE]

\* The client writes the call, an argument at a time.
Give(a) ==
    /\ pc = "given"
    /\ a \notin DOMAIN given
    /\ a \in This.needs \/ Cardinality(DOMAIN given \ This.needs) < MaxGiven
    /\ \E v \in Values(This, This.args[a]) :
         given' = [b \in DOMAIN given \cup {a} |-> IF b = a THEN v ELSE given[b]]
    /\ UNCHANGED <<tool, sudo, maxBytes, pc, words, source, sent, answer>>

\* handle_*: the arguments are checked, then the command is built.
Validate ==
    /\ pc = "given"
    /\ IF Accepted THEN pc' = "run" /\ words' = Worded
                   ELSE pc' = "refused" /\ UNCHANGED words
    /\ UNCHANGED <<tool, given, sudo, maxBytes, source, sent, answer>>

\* How the source may end.  A program that fails says why, but for a search
\* that finds nothing; sudo that is denied asks for no password (-n).
Ends ==
    LET most == IF Piped # "base64" THEN 1
                ELSE IF tool = "read_binary" /\ given["length"].n < Reach
                THEN given["length"].n ELSE Reach
        whys == IF "sudo" \in words THEN {"command not found", "other"} ELSE Complaints
    IN  IF "sudo" \in words /\ sudo = "denied"
        THEN {[exit |-> 1, err |-> {"a password is required"}, n |-> 0]}
        ELSE [exit : {0}, err : {{}}, n : 0..most]
             \cup [exit : {1}, err : {{w} : w \in whys \ {"command not found"}}, n : 0..most]
             \cup {[exit |-> 127, err |-> {"command not found"}, n |-> 0]}
             \cup IF This.pipes = {} THEN {[exit |-> 1, err |-> {}, n |-> 0]} ELSE {}

RunSource ==
    /\ pc = "run"
    /\ source' \in Ends
    /\ IF Piped = "none"
       THEN /\ sent' = [exit |-> source'.exit, err |-> source'.err, n |-> source'.n, cut |-> FALSE]
            /\ pc' = "sent"
       ELSE pc' = "pipe" /\ UNCHANGED sent
    /\ UNCHANGED <<tool, given, sudo, maxBytes, words, answer>>

Through(exit, err, n) ==
    sent' = [exit |-> exit, err |-> err, n |-> n, cut |-> FALSE]

\* | grep ... || [ $? -eq 1 ]: a match, none (1 becomes 0), a pattern it cannot
\* read (2 becomes 1).
ThroughGrep ==
    /\ Piped = "grep"
    /\ \/ \E n \in 0..source.n : Through(0, source.err, n)
       \/ Through(1, source.err \cup {"bad pattern"}, 0)

\* 2>&1 | grep ... || [ $? -eq 1 ]: what the source complains of are lines, and
\* grep lets through those that match.
ThroughMerged ==
    /\ Piped = "merged"
    /\ \/ \E n \in 0..(IF source.n > 0 \/ source.err # {} THEN 1 ELSE 0) : Through(0, {}, n)
       \/ Through(1, {"bad pattern"}, 0)

\* Mutant: dmesg 2>/dev/null | tail -n
ThroughTailSilent == Piped = "tail" /\ Through(0, {}, source.n)

\* | tail -n
ThroughTail == Piped = "tail" /\ Through(0, source.err, source.n)

\* A script of probes that cannot fail, nor say a word to stderr.
ThroughScript == Piped = "script" /\ Through(0, {}, 1)

\* Mutant: the whole of it is taken in.
ThroughBase64Uncut ==
    /\ Piped = "base64"
    /\ sent' = [exit |-> 0, err |-> source.err, cut |-> Encoded(source.n) > maxBytes,
                n |-> Encoded(source.n)]

\* | base64 -w 0, cut by run_ssh at the cap.
ThroughBase64 ==
    /\ Piped = "base64"
    /\ LET m == Encoded(source.n)
       IN  sent' = [exit |-> 0, err |-> source.err, cut |-> m > maxBytes,
                    n |-> IF m > maxBytes THEN maxBytes ELSE m]

RunPipe ==
    /\ pc = "pipe"
    /\ ThroughGrep \/ ThroughMerged \/ ThroughTail \/ ThroughScript \/ ThroughBase64
    /\ pc' = "sent"
    /\ UNCHANGED <<tool, given, sudo, maxBytes, words, source, answer>>

\* The timeout passes at any time: run_ssh returns what it has so far.
TimeOut ==
    /\ pc \in {"run", "pipe"}
    /\ \E got \in 0 .. (IF Piped = "base64" THEN Encoded(source.n)
                       ELSE IF Piped = "none" THEN 1 ELSE source.n) :
         sent' = [exit |-> 124, err |-> source.err, cut |-> got > maxBytes,
                  n |-> IF got > maxBytes THEN maxBytes ELSE got]
    /\ pc' = "sent"
    /\ UNCHANGED <<tool, given, sudo, maxBytes, words, source, answer>>

Answer ==
    /\ pc = "sent"
    /\ pc' = "answered"
    /\ answer' =
         IF Piped # "base64" \/ Decodes(sent.n)
         THEN [exit |-> sent.exit, err |-> sent.err, truncated |-> sent.cut,
               n |-> IF Piped = "base64" THEN Decoded(sent.n, source.n) ELSE sent.n]
         ELSE [exit |-> IF sent.exit = 0 THEN 1 ELSE sent.exit, truncated |-> sent.cut,
               err |-> sent.err \cup {"base64 decode failed"}, n |-> 0]
    /\ UNCHANGED <<tool, given, sudo, maxBytes, words, source, sent>>

Next ==
    \/ \E a \in DOMAIN This.args : Give(a)
    \/ Validate \/ RunSource \/ RunPipe \/ TimeOut \/ Answer

Spec == Init /\ [][Next]_vars

-----------------------------------------------------------------------------
(* What the client can rely on.                                            *)

\* Every variable keeps its kind of value.
TypeOK ==
    /\ tool \in DOMAIN Catalogue
    /\ DOMAIN given \subseteq DOMAIN This.args
    /\ sudo \in {"off", "granted", "denied"}
    /\ maxBytes \in MaxBytes
    /\ pc \in {"given", "run", "pipe", "sent", "answered", "refused"}
    /\ words \subseteq DOMAIN This.args \cup {"sudo"}
    /\ source.exit \in ExitCodes /\ sent.exit \in ExitCodes /\ answer.exit \in ExitCodes
    /\ source.n \in Nat /\ sent.n \in 0..maxBytes /\ answer.n \in Nat
    /\ sent.cut \in BOOLEAN /\ answer.truncated \in BOOLEAN

\* What a call asks for is in its command, or the call is refused: nothing is
\* dropped on the way but grep_flags without a pattern (ssh.py:100) and a
\* decompress that codec overrides (validate.py:275).
Superseded(a) ==
    \/ a = "grep_flags" /\ tool \in {"read_file", "archive_read"} /\ "grep_pattern" \notin Saying
    \/ a = "decompress" /\ "codec" \in Saying
GivenIsUsed ==
    pc \notin {"given", "refused"} => \A a \in Saying : a \in words \/ Superseded(a)

\* A source that failed leaves a trace in the result, an exit status or a
\* complaint, whatever its output was piped through; only docker_logs with a
\* pattern, whose complaints go through grep with the rest (docker.py:402),
\* and the probe of reboot_required (pkg.py:164) leave none.
FailureNoticed ==
    pc = "answered" /\ source.exit # 0 /\ Piped \notin {"merged", "script"}
        => answer.exit # 0 \/ answer.err # {}

\* Data read from a file is all that the source put out, or the result says
\* otherwise; and the cap on the length of read_binary (validate.py:231) leaves
\* room for its base64, unless LINUX_INFO_MAX_BYTES has none for four characters.
BinaryWhole ==
    pc = "answered" /\ Piped = "base64" =>
        /\ answer.n = source.n \/ answer.truncated \/ answer.exit # 0
        /\ tool = "read_binary" /\ maxBytes >= 4 /\ answer.exit # 124
               => ~answer.truncated /\ answer.n = source.n /\ answer.err = source.err

\* README.md:155 - a failed command whose stderr looks like a permission error
\* gets privilege_error: true.
Res == INSTANCE Results WITH
    ExitCodes <- ExitCodes, MaxLines <- 0, asked <- "none", locked <- "none",
    parser <- "none", lines <- <<>>, mode <- "raw", pc <- "annotate",
    result <- [exit_code |-> answer.exit, stderr |-> answer.err, privilege_error |-> FALSE,
               error_kind |-> "none"]
Noted == Res!Annotated([exit_code |-> answer.exit, stderr |-> answer.err,
                        privilege_error |-> FALSE, error_kind |-> "none"])
PrivilegeNoticed ==
    pc = "answered" /\ source.exit # 0 /\ "permission denied" \in answer.err
        => Noted.privilege_error
=============================================================================

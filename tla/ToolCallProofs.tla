--------------------------- MODULE ToolCallProofs ---------------------------
(***************************************************************************)
(* Theorems about ToolCall, for every cap and every bound on what a source *)
(* puts out: data comes back whole or is marked, a failure leaves a trace, *)
(* and what a call asks for is in its command, for each row of Tools.      *)
(***************************************************************************)
EXTENDS ToolCall, TLAPS

\* What is given has numbers that are integers; the length of a binary read
\* that was accepted is within its cap.
GivenTyped ==
    /\ maxBytes \in Nat \ {0}
    /\ \A a \in DOMAIN given : given[a].n \in Int
LengthAccepted ==
    tool = "read_binary" /\ pc \in {"run", "pipe", "sent", "answered"} =>
        "length" \in DOMAIN given /\ given["length"].n <= BinaryLengthCap(maxBytes)

\* A source puts out no more than it is asked for, and does not fail in
\* silence when its output goes through another program.
Sourced ==
    /\ source.n \in Nat
    /\ pc \in {"given", "run", "refused"} => source = Nothing
    /\ Piped # "none" /\ source.exit # 0 => source.err # {}
    /\ tool = "read_binary" /\ Piped = "base64" /\ pc \in {"pipe", "sent", "answered"} =>
         source.n = 0 \/ source.n <= given["length"].n

\* What comes back when there was time: of base64, all that fits; of any
\* failure, a trace.
Sent ==
    pc \in {"sent", "answered"} =>
        /\ sent.exit = 124 \/ Piped \in {"merged", "script"} \/ source.exit = 0
           \/ sent.exit # 0 \/ sent.err # {}
        /\ Piped = "base64" =>
             /\ sent.n \in 0..maxBytes
             /\ \/ sent.exit = 124
                \/ /\ sent.exit = 0 /\ sent.err = source.err
                   /\ sent.cut <=> Encoded(source.n) > maxBytes
                   /\ sent.n = IF sent.cut THEN maxBytes ELSE Encoded(source.n)

IInv ==
    /\ GivenTyped /\ LengthAccepted /\ Sourced /\ Sent
    /\ pc \in {"given", "run", "pipe", "sent", "answered", "refused"}
    /\ pc = "answered" => BinaryWhole /\ FailureNoticed

-----------------------------------------------------------------------------
(* Arithmetic of base64.                                                   *)

\* The base64 of n bytes is whole groups of four, n bytes at least.
LEMMA EncodedLength ==
    ASSUME NEW n \in Nat
    PROVE  Encoded(n) \in Nat /\ Encoded(n) % 4 = 0 /\ n <= Encoded(n)
  <1>1. (n + 2) \div 3 \in Nat /\ n <= 3 * ((n + 2) \div 3)
    OBVIOUS
  <1>. QED  BY <1>1 DEF Encoded

\* binary_length_cap leaves room for the base64 of that many bytes
\* (validate.py:231).
LEMMA CapLeavesRoom ==
    ASSUME NEW mb \in Nat, mb >= 4, NEW n \in Nat, n <= BinaryLengthCap(mb)
    PROVE  Encoded(n) <= mb
  <1>1. CASE n <= 1
    <2>1. (n + 2) \div 3 <= 1
      BY <1>1
    <2>. QED  BY <2>1 DEF Encoded
  <1>2. CASE n > 1
    <2>1. n <= ((mb - 8) * 3) \div 4
      BY <1>2 DEF BinaryLengthCap
    <2>2. 4 * n <= (mb - 8) * 3
      BY <2>1
    <2>3. 3 * ((n + 2) \div 3) <= n + 2
      OBVIOUS
    <2>. QED  BY <2>2, <2>3 DEF Encoded
  <1>. QED  BY <1>1, <1>2

\* What is given for an argument has a number.
LEMMA ValuesTyped ==
    ASSUME NEW t, NEW k, NEW v \in Values(t, k)
    PROVE  v.n \in Int
  BY DEF Values, Number, Word

-----------------------------------------------------------------------------
(* The invariant is inductive.                                             *)

LEMMA IInvInit == Init => IInv
  <1>. SUFFICES ASSUME Init PROVE IInv
    OBVIOUS
  <1>1. GivenTyped
    BY BoundsAssumption DEF Init, GivenTyped
  <1>2. Sourced
    BY DEF Init, Sourced, Nothing
  <1>. QED  BY <1>1, <1>2 DEF Init, LengthAccepted, Sent, IInv

LEMMA GiveStep == ASSUME NEW a PROVE IInv /\ Give(a) => IInv'
  <1>. SUFFICES ASSUME IInv, Give(a) PROVE IInv'
    OBVIOUS
  <1>1. /\ pc = "given" /\ pc' = pc /\ maxBytes' = maxBytes /\ source' = source
        /\ source = Nothing
    BY DEF Give, IInv, Sourced
  <1>2. PICK v \in Values(This, This.args[a]) :
             given' = [b \in DOMAIN given \cup {a} |-> IF b = a THEN v ELSE given[b]]
    BY DEF Give
  <1>3. GivenTyped'
    BY <1>1, <1>2, ValuesTyped DEF IInv, GivenTyped
  <1>4. Sourced'
    BY <1>1 DEF Sourced, Nothing
  <1>. QED  BY <1>1, <1>3, <1>4 DEF IInv, LengthAccepted, Sent

LEMMA ValidateStep == IInv /\ Validate => IInv'
  <1>. SUFFICES ASSUME IInv, Validate PROVE IInv'
    OBVIOUS
  <1>1. /\ pc = "given" /\ pc' \in {"run", "refused"} /\ source = Nothing
        /\ UNCHANGED <<tool, given, maxBytes, source, sent, answer>>
    BY DEF Validate, IInv, Sourced
  <1>2. LengthAccepted'
    <2>. SUFFICES ASSUME tool = "read_binary", pc' = "run"
                  PROVE  "length" \in DOMAIN given /\ given["length"].n <= BinaryLengthCap(maxBytes)
      BY <1>1 DEF LengthAccepted
    <2>1. This = ReadBinary
      BY DEF This, Catalogue
    <2>2. "length" \in This.needs
      BY <2>1 DEF ReadBinary, Tool
    <2>. QED  BY <2>2, <1>1 DEF Validate, Accepted
  <1>3. Sourced'
    BY <1>1 DEF Sourced, Nothing
  <1>. QED  BY <1>1, <1>2, <1>3 DEF IInv, GivenTyped, Sent

\* While a call runs its pipe does not change.
LEMMA PipedStays ==
    ASSUME UNCHANGED <<tool, words>>
    PROVE  Piped' = Piped
  BY DEF Piped, This

\* A source that ends leaves what it should.
LEMMA EndsTyped ==
    ASSUME GivenTyped, NEW s \in Ends,
           tool = "read_binary" => "length" \in DOMAIN given
    PROVE  /\ s.n \in Nat
           /\ Piped # "none" /\ s.exit # 0 => s.err # {}
           /\ tool = "read_binary" /\ Piped = "base64" => s.n = 0 \/ s.n <= given["length"].n
  <1>. DEFINE most == IF Piped # "base64" THEN 1
                      ELSE IF tool = "read_binary" /\ given["length"].n < Reach
                      THEN given["length"].n ELSE Reach
              whys == IF "sudo" \in words THEN {"command not found", "other"} ELSE Complaints
  <1>1. CASE "sudo" \in words /\ sudo = "denied"
    <2>0. Ends = {[exit |-> 1, err |-> {"a password is required"}, n |-> 0]}
      BY <1>1, Zenon DEF Ends
    <2>1. s = [exit |-> 1, err |-> {"a password is required"}, n |-> 0]
      BY <2>0
    <2>2. s.n = 0
      BY <2>1
    <2>3. s.n \in Nat
      BY <2>2
    <2>4. s.err # {}
      BY <2>1, Zenon
    <2>. QED  BY <2>2, <2>3, <2>4, Zenon
  <1>2. CASE ~("sudo" \in words /\ sudo = "denied")
    <2>1. CASE s \in [exit : {0}, err : {{}}, n : 0..most]
                     \cup [exit : {1}, err : {{w} : w \in whys \ {"command not found"}}, n : 0..most]
      <3>1. s.n \in 0..most /\ (s.exit # 0 => s.err # {})
        BY <2>1
      <3>2. tool = "read_binary" => given["length"].n \in Int
        BY DEF GivenTyped
      <3>. QED  BY <3>1, <3>2, BoundsAssumption
    <2>2. CASE s = [exit |-> 127, err |-> {"command not found"}, n |-> 0]
      BY <2>2
    <2>3. CASE s = [exit |-> 1, err |-> {}, n |-> 0] /\ This.pipes = {}
      <3>1. Piped = "none"
        BY <2>3 DEF Piped, PipeOf
      <3>. QED  BY <2>3, <3>1
    <2>. QED  BY <1>2, <2>1, <2>2, <2>3 DEF Ends
  <1>. QED  BY <1>1, <1>2

LEMMA RunSourceStep == IInv /\ RunSource => IInv'
  <1>. SUFFICES ASSUME IInv, RunSource PROVE IInv'
    OBVIOUS
  <1>1. /\ pc = "run" /\ UNCHANGED <<tool, given, maxBytes, words, answer>>
        /\ source' \in Ends
        /\ IF Piped = "none"
           THEN /\ pc' = "sent"
                /\ sent' = [exit |-> source'.exit, err |-> source'.err, n |-> source'.n,
                            cut |-> FALSE]
           ELSE pc' = "pipe" /\ sent' = sent
    BY DEF RunSource
  <1>2. Piped' = Piped
    BY <1>1, PipedStays
  <1>3. LengthAccepted' /\ GivenTyped'
    BY <1>1 DEF IInv, LengthAccepted, GivenTyped
  <1>4. /\ source'.n \in Nat
        /\ Piped # "none" /\ source'.exit # 0 => source'.err # {}
        /\ tool = "read_binary" /\ Piped = "base64" =>
             source'.n = 0 \/ source'.n <= given["length"].n
    BY <1>1, EndsTyped DEF IInv, LengthAccepted
  <1>5. Sourced'
    BY <1>1, <1>2, <1>4 DEF Sourced
  <1>6. Sent'
    BY <1>1, <1>2 DEF Sent
  <1>. QED  BY <1>1, <1>3, <1>5, <1>6 DEF IInv

LEMMA RunPipeStep == IInv /\ RunPipe => IInv'
  <1>. SUFFICES ASSUME IInv, RunPipe PROVE IInv'
    OBVIOUS
  <1>1. /\ pc = "pipe" /\ pc' = "sent"
        /\ UNCHANGED <<tool, given, sudo, maxBytes, words, source, answer>>
    BY DEF RunPipe
  <1>2. Piped' = Piped
    BY <1>1, PipedStays
  <1>3. LengthAccepted' /\ GivenTyped'
    BY <1>1 DEF IInv, LengthAccepted, GivenTyped
  <1>4. Sourced'
    BY <1>1, <1>2 DEF IInv, Sourced
  <1>5. Encoded(source.n) \in Nat /\ maxBytes \in Nat
    BY EncodedLength DEF IInv, Sourced, GivenTyped
  <1>6. Sent'
    <2>1. CASE ThroughGrep
      <3>1. /\ Piped = "grep"
            /\ \/ sent'.exit = 0 /\ sent'.err = source.err
               \/ sent'.exit = 1
        <4>1. \A exit, err, n : Through(exit, err, n) => sent'.exit = exit /\ sent'.err = err
          BY DEF Through
        <4>. QED  BY <2>1, <4>1, Zenon DEF ThroughGrep
      <3>2. source.exit # 0 => source.err # {}
        BY <3>1 DEF IInv, Sourced
      <3>3. source.exit = 0 \/ sent'.exit # 0 \/ sent'.err # {}
        BY <3>1, <3>2
      <3>. QED  BY <1>1, <1>2, <3>1, <3>3 DEF Sent
    <2>2. CASE ThroughMerged \/ ThroughScript
      BY <1>1, <1>2, <2>2 DEF ThroughMerged, ThroughScript, Through, Sent
    <2>3. CASE ThroughTail
      BY <1>1, <1>2, <2>3 DEF ThroughTail, Through, Sent, IInv, Sourced
    <2>4. CASE ThroughBase64
      <3>1. /\ Piped = "base64"
            /\ sent'.exit = 0 /\ sent'.err = source.err
            /\ sent'.cut = (Encoded(source.n) > maxBytes)
            /\ sent'.n = IF Encoded(source.n) > maxBytes THEN maxBytes ELSE Encoded(source.n)
        BY <2>4 DEF ThroughBase64
      <3>2. source.exit # 0 => source.err # {}
        BY <3>1 DEF IInv, Sourced
      <3>3. source.exit = 0 \/ sent'.exit # 0 \/ sent'.err # {}
        BY <3>1, <3>2
      <3>4. sent'.n \in 0..maxBytes
        BY <1>5, <3>1
      <3>5. sent'.cut <=> Encoded(source.n) > maxBytes
        BY <3>1
      <3>6. sent'.n = IF sent'.cut THEN maxBytes ELSE Encoded(source.n)
        BY <3>1, <3>5
      <3>. QED  BY <1>1, <1>2, <3>1, <3>3, <3>4, <3>5, <3>6, Zenon DEF Sent
    <2>. QED  BY <2>1, <2>2, <2>3, <2>4 DEF RunPipe
  <1>. QED  BY <1>1, <1>3, <1>4, <1>6 DEF IInv

LEMMA TimeOutStep == IInv /\ TimeOut => IInv'
  <1>. SUFFICES ASSUME IInv, TimeOut PROVE IInv'
    OBVIOUS
  <1>1. /\ pc \in {"run", "pipe"} /\ pc' = "sent"
        /\ UNCHANGED <<tool, given, sudo, maxBytes, words, source, answer>>
    BY DEF TimeOut
  <1>2. Piped' = Piped
    BY <1>1, PipedStays
  <1>3. LengthAccepted' /\ GivenTyped'
    BY <1>1 DEF IInv, LengthAccepted, GivenTyped
  <1>4. Sourced'
    BY <1>1, <1>2 DEF IInv, Sourced, Nothing
  <1>5. Encoded(source.n) \in Nat /\ maxBytes \in Nat
    BY EncodedLength DEF IInv, Sourced, GivenTyped
  <1>6. sent'.exit = 124 /\ (Piped = "base64" => sent'.n \in 0..maxBytes)
    BY <1>5 DEF TimeOut
  <1>7. Sent'
    BY <1>1, <1>2, <1>6 DEF Sent
  <1>. QED  BY <1>1, <1>3, <1>4, <1>7 DEF IInv

LEMMA AnswerStep == IInv /\ Answer => IInv'
  <1>. SUFFICES ASSUME IInv, Answer PROVE IInv'
    OBVIOUS
  <1>1. /\ pc = "sent" /\ pc' = "answered"
        /\ UNCHANGED <<tool, given, sudo, maxBytes, words, source, sent>>
    BY DEF Answer
  <1>2. Piped' = Piped
    BY <1>1, PipedStays
  <1>3. LengthAccepted' /\ GivenTyped'
    BY <1>1 DEF IInv, LengthAccepted, GivenTyped
  <1>4. Sourced' /\ Sent'
    BY <1>1, <1>2 DEF IInv, Sourced, Sent
  <1>5. \/ /\ Piped # "base64" \/ Decodes(sent.n)
           /\ answer'.exit = sent.exit /\ answer'.err = sent.err /\ answer'.truncated = sent.cut
           /\ answer'.n = IF Piped = "base64" THEN Decoded(sent.n, source.n) ELSE sent.n
        \/ /\ Piped = "base64" /\ ~Decodes(sent.n)
           /\ answer'.exit = IF sent.exit = 0 THEN 1 ELSE sent.exit
           /\ answer'.err = sent.err \cup {"base64 decode failed"}
    BY DEF Answer
  <1>6. FailureNoticed'
    <2>. SUFFICES ASSUME source.exit # 0, Piped \notin {"merged", "script"}
                  PROVE  answer'.exit # 0 \/ answer'.err # {}
      BY <1>1, <1>2 DEF FailureNoticed
    <2>1. sent.exit # 0 \/ sent.err # {}
      BY <1>1 DEF IInv, Sent
    <2>2. \/ answer'.exit = sent.exit /\ answer'.err = sent.err
          \/ "base64 decode failed" \in answer'.err
      BY <1>5
    <2>. QED  BY <2>1, <2>2
  <1>7. BinaryWhole'
    <2>. SUFFICES ASSUME Piped = "base64", sent.exit # 124
                  PROVE  /\ answer'.n = source.n \/ answer'.truncated \/ answer'.exit # 0
                         /\ tool = "read_binary" /\ maxBytes >= 4 =>
                              ~answer'.truncated /\ answer'.n = source.n /\ answer'.err = source.err
      <3>1. sent.exit = 124 => sent.exit # 0 /\ 124 # 0
        OBVIOUS
      <3>2. sent.exit = 124 => answer'.exit = 124 /\ answer'.exit # 0
        BY <1>5, <3>1, Zenon
      <3>. QED  BY <1>1, <1>2, <3>1, <3>2, Zenon DEF BinaryWhole
    <2>1. /\ sent.exit = 0 /\ sent.err = source.err
          /\ sent.cut <=> Encoded(source.n) > maxBytes
          /\ sent.n = IF sent.cut THEN maxBytes ELSE Encoded(source.n)
      BY <1>1 DEF IInv, Sent
    <2>2. source.n \in Nat /\ maxBytes \in Nat
      BY DEF IInv, Sourced, GivenTyped
    <2>3. ~sent.cut => Decodes(sent.n) /\ Decoded(sent.n, source.n) = source.n
      BY <2>1, <2>2, EncodedLength DEF Decodes, Decoded
    <2>4. tool = "read_binary" /\ maxBytes >= 4 => ~sent.cut
      <3>. SUFFICES ASSUME tool = "read_binary", maxBytes >= 4
                    PROVE  Encoded(source.n) <= maxBytes
        BY <2>1, <2>2, EncodedLength
      <3>1. /\ source.n = 0 \/ source.n <= given["length"].n
            /\ given["length"].n \in Int /\ given["length"].n <= BinaryLengthCap(maxBytes)
        BY <1>1 DEF IInv, Sourced, LengthAccepted, GivenTyped
      <3>2. BinaryLengthCap(maxBytes) \in Int /\ BinaryLengthCap(maxBytes) >= 1
        BY <2>2 DEF BinaryLengthCap
      <3>3. source.n <= BinaryLengthCap(maxBytes)
        BY <2>2, <3>1, <3>2
      <3>. QED  BY <2>2, <3>3, CapLeavesRoom
    <2>5. CASE sent.cut
      <3>1. ~ (tool = "read_binary" /\ maxBytes >= 4)
        BY <2>4, <2>5
      <3>2. CASE Decodes(sent.n)
        <4>1. answer'.truncated = sent.cut
          BY <1>5, <3>2
        <4>. QED  BY <2>5, <3>1, <4>1, Zenon
      <3>3. CASE ~Decodes(sent.n)
        <4>1. answer'.exit = 1
          BY <1>5, <2>1, <3>3
        <4>2. answer'.exit # 0
          BY <4>1
        <4>. QED  BY <3>1, <4>2, Zenon
      <3>. QED  BY <3>2, <3>3
    <2>6. CASE ~sent.cut
      BY <1>5, <2>1, <2>3, <2>6
    <2>. QED  BY <2>5, <2>6
  <1>. QED  BY <1>1, <1>3, <1>4, <1>6, <1>7 DEF IInv

LEMMA StutterStep == IInv /\ UNCHANGED vars => IInv'
  <1>. SUFFICES ASSUME IInv, UNCHANGED vars PROVE IInv'
    OBVIOUS
  <1>1. UNCHANGED <<tool, given, sudo, maxBytes, pc, words, source, sent, answer>>
    BY DEF vars
  <1>2. Piped' = Piped
    BY <1>1, PipedStays
  <1>. QED
    BY <1>1, <1>2 DEF IInv, GivenTyped, LengthAccepted, Sourced, Sent, BinaryWhole, FailureNoticed

\* Arguments, source, pipe and answer are related as IInv says, for every cap
\* and every bound (files.py:74-99, ssh.py:94-139).
THEOREM IInvHolds == Spec => []IInv
  <1>1. IInv /\ [Next]_vars => IInv'
    BY GiveStep, ValidateStep, RunSourceStep, RunPipeStep, TimeOutStep, AnswerStep, StutterStep
       DEF Next
  <1>. QED  BY IInvInit, <1>1, PTL DEF Spec

-----------------------------------------------------------------------------
(* What follows from it.                                                   *)

\* Data read from a file is all there was or the result says otherwise; a
\* length that is accepted comes back whole, for every LINUX_INFO_MAX_BYTES of
\* four or more (validate.py:231, files.py:85-99).
THEOREM BinaryIsWhole == Spec => []BinaryWhole
  <1>1. IInv => BinaryWhole
    BY DEF IInv, BinaryWhole
  <1>. QED  BY <1>1, IInvHolds, PTL

\* A source that failed leaves a trace in the result, whatever its output was
\* piped through but a merged grep and the probe script (ssh.py:94-139).
THEOREM FailureIsNoticed == Spec => []FailureNoticed
  <1>1. IInv => FailureNoticed
    BY DEF IInv, FailureNoticed
  <1>. QED  BY <1>1, IInvHolds, PTL

-----------------------------------------------------------------------------
(* Every word of a call reaches its command: the rules of each tool cover   *)
(* the branches of its builder that lie inside others.                      *)

\* The rules exclude every call in which a branch would not be reached, and a
\* default stands for an argument of the tool.
Covered(t) ==
    /\ t.always \subseteq DOMAIN t.args
    /\ \A o \in t.only :
         /\ \A w \in o.with : Needs(o.word, w) \in t.rules
         /\ \A w \in o.without : Excl(o.word, w) \in t.rules \/ Excl(w, o.word) \in t.rules

\* The tools that leave out grep_flags without a pattern, or a decompress that
\* codec overrides.
Lenient == {"read_file", "read_binary", "archive_read"}

\* A builder with no branch inside another leaves nothing out.
LEMMA FlatCovered ==
    ASSUME NEW args, NEW needs, NEW rules
    PROVE  Covered(Tool(args, needs, rules))
  BY DEF Covered, Tool

\* The builders with such branches, or with defaults, one at a time.
LEMMA NestedCovered ==
    /\ Covered(Lsblk) /\ Covered(Smartctl) /\ Covered(RebootRequired) /\ Covered(Journalctl)
    /\ Covered(SystemctlStatus) /\ Covered(SystemctlList) /\ Covered(DockerLogs) /\ Covered(Dmesg)
    /\ Covered(CgroupStats) /\ Covered(SystemdAnalyze) /\ Covered(LldpPorts) /\ Covered(LldpChassis)
    /\ Covered(Ethtool) /\ Covered(Conntrack) /\ Covered(NftList) /\ Covered(IptablesList)
    /\ Covered(Dig) /\ Covered(Iostat) /\ Covered(Vmstat) /\ Covered(Ps)
    /\ Covered(PsiStats) /\ Covered(Meminfo) /\ Covered(Lsof) /\ Covered(Sar)
    /\ Covered(Atop) /\ Covered(Pmrep) /\ Covered(Dmidecode)
  <1>1. Covered(Lsblk)
    BY DEF Covered, Tool, Only, Lsblk
  <1>2. Covered(Smartctl)
    BY DEF Covered, Tool, Only, Smartctl
  <1>3. Covered(RebootRequired)
    BY DEF Covered, Tool, Only, RebootRequired
  <1>4. Covered(Journalctl)
    BY DEF Covered, Tool, Only, Journalctl
  <1>5. Covered(SystemctlStatus)
    BY DEF Covered, Tool, Only, SystemctlStatus
  <1>6. Covered(SystemctlList)
    BY DEF Covered, Tool, Only, SystemctlList
  <1>7. Covered(DockerLogs)
    BY DEF Covered, Tool, Only, DockerLogs
  <1>8. Covered(Dmesg)
    BY DEF Covered, Tool, Only, Dmesg
  <1>9. Covered(CgroupStats)
    BY DEF Covered, Tool, Only, CgroupStats
  <1>10. Covered(SystemdAnalyze)
    BY DEF Covered, Tool, Only, SystemdAnalyze
  <1>11. Covered(LldpPorts)
    BY DEF Covered, Tool, Only, LldpPorts
  <1>12. Covered(LldpChassis)
    BY DEF Covered, Tool, Only, LldpChassis
  <1>13. Covered(Ethtool)
    BY DEF Covered, Tool, Only, Ethtool
  <1>14. Covered(Conntrack)
    BY DEF Covered, Tool, Only, Conntrack
  <1>15. Covered(NftList)
    BY DEF Covered, Tool, Only, NftList
  <1>16. Covered(IptablesList)
    BY DEF Covered, Tool, Only, IptablesList
  <1>17. Covered(Dig)
    BY DEF Covered, Tool, Only, Dig
  <1>18. Covered(Iostat)
    BY DEF Covered, Tool, Only, Iostat
  <1>19. Covered(Vmstat)
    BY DEF Covered, Tool, Only, Vmstat
  <1>20. Covered(Ps)
    BY DEF Covered, Tool, Only, Ps
  <1>21. Covered(PsiStats)
    BY DEF Covered, Tool, Only, PsiStats
  <1>22. Covered(Meminfo)
    BY DEF Covered, Tool, Only, Meminfo
  <1>23. Covered(Lsof)
    BY DEF Covered, Tool, Only, Lsof
  <1>24. Covered(Sar)
    BY DEF Covered, Tool, Only, Sar
  <1>25. Covered(Atop)
    BY DEF Covered, Tool, Only, Atop
  <1>26. Covered(Pmrep)
    BY DEF Covered, Tool, Only, Pmrep
  <1>27. Covered(Dmidecode)
    BY DEF Covered, Tool, Only, Dmidecode
  <1>. QED
    BY <1>1, <1>2, <1>3, <1>4, <1>5, <1>6, <1>7, <1>8, <1>9, <1>10, <1>11, <1>12,
        <1>13, <1>14, <1>15, <1>16, <1>17, <1>18, <1>19, <1>20, <1>21, <1>22, <1>23,
        <1>24, <1>25, <1>26, <1>27

\* Every row of the catalogue that is not lenient is covered.
LEMMA CatalogueCovered ==
    ASSUME NEW t \in DOMAIN Catalogue \ Lenient
    PROVE  Covered(Catalogue[t])
  <1>1. Catalogue[t] \in
           {FindFiles, ArchiveList, Du, Lsblk, Blkid, Smartctl, Blockdev, Mount,
            Findmnt, StatFs, Stat, DpkgList, RpmList, AptListInstalled,
            RebootRequired, Chronyc, Timedatectl, Journalctl, SystemctlStatus,
            SystemctlList, SystemctlListTimers, SystemctlListSockets, DockerPs,
            DockerInspect, DockerImages, DockerLogs, Dmesg, Uname, Sysctl, Slabtop,
            Numastat, CgroupStats, SystemdAnalyze, LldpPorts, LldpChassis, Ss,
            IpAddr, IpRoute, LsofNet, ArpTable, TcQdisc, Ethtool, Conntrack,
            NetProtocolStats, NftList, IptablesList, Dig, Iostat, Vmstat, Free, Df,
            Ps, PsiStats, Meminfo, Lsof, Pgrep, Pidof, Top, ProcLimits, Sar, Atop,
            Pmrep, Uptime, Who, Last, Lscpu, Lsmem, Dmidecode, Lspci, Lsusb, Sensors}
    BY DEF Catalogue, Lenient
  <1>2. /\ Covered(FindFiles) /\ Covered(ArchiveList) /\ Covered(Du) /\ Covered(Blkid)
        /\ Covered(Blockdev) /\ Covered(Mount) /\ Covered(Findmnt) /\ Covered(StatFs)
        /\ Covered(Stat) /\ Covered(DpkgList) /\ Covered(RpmList) /\ Covered(AptListInstalled)
        /\ Covered(Chronyc) /\ Covered(Timedatectl) /\ Covered(SystemctlListTimers) /\ Covered(SystemctlListSockets)
        /\ Covered(DockerPs) /\ Covered(DockerInspect) /\ Covered(DockerImages) /\ Covered(Uname)
        /\ Covered(Sysctl) /\ Covered(Slabtop) /\ Covered(Numastat) /\ Covered(Ss)
        /\ Covered(IpAddr) /\ Covered(IpRoute) /\ Covered(LsofNet) /\ Covered(ArpTable)
        /\ Covered(TcQdisc) /\ Covered(NetProtocolStats) /\ Covered(Free) /\ Covered(Df)
        /\ Covered(Pgrep) /\ Covered(Pidof) /\ Covered(Top) /\ Covered(ProcLimits)
        /\ Covered(Uptime) /\ Covered(Who) /\ Covered(Last) /\ Covered(Lscpu)
        /\ Covered(Lsmem) /\ Covered(Lspci) /\ Covered(Lsusb) /\ Covered(Sensors)
    BY FlatCovered
       DEF FindFiles, ArchiveList, Du, Blkid, Blockdev, Mount,
          Findmnt, StatFs, Stat, DpkgList, RpmList, AptListInstalled, Chronyc,
          Timedatectl, SystemctlListTimers, SystemctlListSockets, DockerPs,
          DockerInspect, DockerImages, Uname, Sysctl, Slabtop, Numastat, Ss, IpAddr,
          IpRoute, LsofNet, ArpTable, TcQdisc, NetProtocolStats, Free, Df, Pgrep,
          Pidof, Top, ProcLimits, Uptime, Who, Last, Lscpu, Lsmem, Lspci, Lsusb,
          Sensors
  <1>. QED  BY <1>1, <1>2, NestedCovered

\* A call that is accepted has every word of a covered tool in its command.
LEMMA CoveredUsed ==
    ASSUME Covered(This), Accepted, NEW a \in Saying
    PROVE  a \in Worded
  <1>. SUFFICES ASSUME NEW o \in This.only, o.word = a
                PROVE  o.with \subseteq On /\ o.without \cap On = {}
    BY DEF Worded
  <1>1. a \in On /\ \A r \in This.rules : ~Broken(r, On)
    BY DEF On, Accepted
  <1>2. ASSUME NEW w \in o.with PROVE w \in On
    <2>1. Needs(a, w) \in This.rules
      BY DEF Covered
    <2>. QED  BY <1>1, <2>1 DEF Broken, Needs, Rule
  <1>3. ASSUME NEW w \in o.without, w \in On PROVE FALSE
    <2>1. Excl(a, w) \in This.rules \/ Excl(w, a) \in This.rules
      BY DEF Covered
    <2>. QED  BY <1>1, <1>3, <2>1 DEF Broken, Excl, Rule
  <1>. QED  BY <1>2, <1>3

\* The rows of the lenient tools.
LEMMA LenientRows ==
    /\ tool = "read_file" => This = ReadFile
    /\ tool = "read_binary" => This = ReadBinary
    /\ tool = "archive_read" => This = ArchiveRead
  BY DEF This, Catalogue

\* No value of an argument bears the name of another argument.
LEMMA NotAName ==
    ASSUME tool \in {"read_file", "read_binary"}, DOMAIN given \subseteq DOMAIN This.args,
           Accepted, NEW a \in DOMAIN given
    PROVE  given[a].is # "codec"
  <1>1. Takes(This.args[a], given[a])
    BY DEF Accepted
  <1>2. This.args[a] \in {Path, Text, Items, Flag, Codecs, AtLeast(0), AtLeast(1)}
    <2>1. CASE tool = "read_file"
      <3>1. This.args = [path |-> Path, grep_pattern |-> Text, grep_flags |-> Items,
                         decompress |-> Flag, codec |-> Codecs]
        BY <2>1, LenientRows DEF ReadFile, Tool
      <3>. QED  BY <3>1
    <2>2. CASE tool = "read_binary"
      <3>1. This.args = [path |-> Path, offset |-> AtLeast(0), length |-> AtLeast(1),
                         decompress |-> Flag, codec |-> Codecs]
        BY <2>2, LenientRows DEF ReadBinary, Tool
      <3>. QED  BY <3>1
    <2>. QED  BY <2>1, <2>2
  <1>3. "codec" \notin This.args[a].takes
    BY <1>2 DEF Path, Text, Items, Flag, Codecs, AtLeast, Within, OneOf, Kind
  <1>. QED  BY <1>1, <1>3 DEF Takes

\* A call that is accepted leaves out nothing but what is superseded.
LEMMA NothingDropped ==
    ASSUME tool \in DOMAIN Catalogue, DOMAIN given \subseteq DOMAIN This.args, Accepted,
           NEW a \in Saying
    PROVE  a \in Worded \/ Superseded(a)
  <1>1. CASE tool \notin Lenient
    BY <1>1, CatalogueCovered, CoveredUsed DEF This
  <1>2. CASE tool \in {"read_file", "read_binary"}
    <2>1. \A o \in This.only :
             \/ o = Only("grep_flags", {"grep_pattern"}, {}) /\ tool = "read_file"
             \/ o = Only("decompress", {}, {"codec"})
      <3>1. tool = "read_file" =>
               This.only = {Only("grep_flags", {"grep_pattern"}, {}),
                            Only("decompress", {}, {"codec"})}
        BY LenientRows DEF ReadFile, Tool
      <3>2. tool = "read_binary" => This.only = {Only("decompress", {}, {"codec"})}
        BY LenientRows DEF ReadBinary, Tool
      <3>. QED  BY <1>2, <3>1, <3>2
    <2>2. "codec" \notin Saying => "codec" \notin On
      BY <1>2, NotAName DEF On
    <2>. QED  BY <2>1, <2>2 DEF Worded, Superseded, On, Only
  <1>3. CASE tool = "archive_read"
    <2>1. /\ This.only = {Only("grep_flags", {"grep_pattern"}, {"binary"}),
                          Only("grep_pattern", {}, {"binary"})}
          /\ Excl("binary", "grep_pattern") \in This.rules
      BY <1>3, LenientRows DEF ArchiveRead, Tool
    <2>2. "grep_pattern" \in On => "binary" \notin On
      BY <2>1 DEF Accepted, Broken, Excl, Rule
    <2>. QED  BY <1>3, <2>1, <2>2 DEF Worded, Superseded, On, Only
  <1>. QED  BY <1>1, <1>2, <1>3 DEF Lenient

\* The command says what the tool can say.
LEMMA WordedTyped ==
    ASSUME tool \in DOMAIN Catalogue, DOMAIN given \subseteq DOMAIN This.args
    PROVE  Worded \subseteq DOMAIN This.args \cup {"sudo"}
  <1>1. This.always \subseteq DOMAIN This.args
    <2>1. CASE tool \notin Lenient
      BY <2>1, CatalogueCovered DEF This, Covered
    <2>2. CASE tool = "read_file"
      BY <2>2, LenientRows DEF ReadFile, Tool
    <2>3. CASE tool = "read_binary"
      BY <2>3, LenientRows DEF ReadBinary, Tool
    <2>4. CASE tool = "archive_read"
      BY <2>4, LenientRows DEF ArchiveRead, Tool
    <2>. QED  BY <2>1, <2>2, <2>3, <2>4 DEF Lenient
  <1>. QED  BY <1>1 DEF Worded, Saying

\* The call stays within its tool, its command within the call; what text a
\* source puts out is there or not.
Called ==
    /\ tool \in DOMAIN Catalogue /\ DOMAIN given \subseteq DOMAIN This.args
    /\ sudo \in {"off", "granted", "denied"} /\ maxBytes \in MaxBytes
    /\ words \subseteq DOMAIN This.args \cup {"sudo"}
Returned ==
    /\ source.exit \in ExitCodes /\ sent.exit \in ExitCodes /\ answer.exit \in ExitCodes
    /\ Piped # "base64" => source.n <= 1
    /\ sent.n \in 0..maxBytes /\ answer.n \in Nat
    /\ sent.cut \in BOOLEAN /\ answer.truncated \in BOOLEAN

\* The command is made once, of the call as it was accepted.
LEMMA CalledStep == Called /\ GivenIsUsed /\ [Next]_vars => Called' /\ GivenIsUsed'
  <1>. SUFFICES ASSUME Called, GivenIsUsed, [Next]_vars PROVE Called' /\ GivenIsUsed'
    OBVIOUS
  <1>1. ASSUME NEW a \in DOMAIN This.args, Give(a) PROVE Called' /\ GivenIsUsed'
    <2>1. pc' = "given" /\ UNCHANGED <<tool, sudo, maxBytes, words>> /\ This' = This
      BY <1>1 DEF Give, This
    <2>2. DOMAIN given' = DOMAIN given \cup {a}
      BY <1>1 DEF Give
    <2>. QED  BY <2>1, <2>2 DEF Called, GivenIsUsed
  <1>2. CASE Validate
    <2>1. UNCHANGED <<tool, given, sudo, maxBytes>> /\ This' = This /\ Saying' = Saying
      BY <1>2 DEF Validate, This, Saying
    <2>2. \A a : Superseded(a)' <=> Superseded(a)
      BY <2>1 DEF Superseded
    <2>3. CASE Accepted
      <3>1. words' = Worded
        BY <1>2, <2>3 DEF Validate
      <3>2. \A a \in Saying : a \in Worded \/ Superseded(a)
        BY <2>3, NothingDropped DEF Called
      <3>3. Worded \subseteq DOMAIN This.args \cup {"sudo"}
        BY WordedTyped DEF Called
      <3>. QED  BY <2>1, <2>2, <3>1, <3>2, <3>3 DEF Called, GivenIsUsed
    <2>4. CASE ~Accepted
      <3>1. pc' = "refused" /\ words' = words
        BY <1>2, <2>4 DEF Validate
      <3>. QED  BY <2>1, <3>1 DEF Called, GivenIsUsed
    <2>. QED  BY <2>3, <2>4
  <1>3. CASE RunSource \/ RunPipe \/ TimeOut \/ Answer \/ UNCHANGED vars
    <2>1. /\ UNCHANGED <<tool, given, sudo, maxBytes, words>>
          /\ pc' \notin {"given", "refused"} => pc \notin {"given", "refused"}
      BY <1>3 DEF RunSource, RunPipe, TimeOut, Answer, vars
    <2>2. This' = This /\ Saying' = Saying
      BY <2>1 DEF This, Saying
    <2>3. \A a : Superseded(a)' <=> Superseded(a)
      BY <2>1, <2>2 DEF Superseded
    <2>. QED  BY <2>1, <2>2, <2>3 DEF Called, GivenIsUsed
  <1>. QED  BY <1>1, <1>2, <1>3 DEF Next

\* What an end of the source may be.
LEMMA EndsBounded ==
    ASSUME NEW s \in Ends
    PROVE  s.exit \in ExitCodes /\ (Piped # "base64" => s.n \in 0..1)
  <1>. DEFINE most == IF Piped # "base64" THEN 1
                      ELSE IF tool = "read_binary" /\ given["length"].n < Reach
                      THEN given["length"].n ELSE Reach
              whys == IF "sudo" \in words THEN {"command not found", "other"} ELSE Complaints
  <1>1. CASE s \in {[exit |-> 1, err |-> {"a password is required"}, n |-> 0],
                    [exit |-> 127, err |-> {"command not found"}, n |-> 0],
                    [exit |-> 1, err |-> {}, n |-> 0]}
    <2>1. s.exit \in {1, 127} /\ s.n = 0
      <3>1. CASE s = [exit |-> 1, err |-> {"a password is required"}, n |-> 0]
        BY <3>1
      <3>2. CASE s = [exit |-> 127, err |-> {"command not found"}, n |-> 0]
        BY <3>2
      <3>3. CASE s = [exit |-> 1, err |-> {}, n |-> 0]
        BY <3>3
      <3>. QED  BY <1>1, <3>1, <3>2, <3>3
    <2>. QED  BY <2>1 DEF ExitCodes
  <1>2. CASE s \in [exit : {0}, err : {{}}, n : 0..most]
                   \cup [exit : {1}, err : {{w} : w \in whys \ {"command not found"}}, n : 0..most]
    <2>1. s.exit \in {0, 1} /\ s.n \in 0..most
      BY <1>2
    <2>. QED  BY <2>1 DEF ExitCodes
  <1>. QED  BY <1>1, <1>2 DEF Ends

\* Each step returns a status, and no more than the cap.
LEMMA ReturnedStep == IInv /\ Called /\ Returned /\ [Next]_vars => Returned'
  <1>. SUFFICES ASSUME IInv, Called, Returned, [Next]_vars PROVE Returned'
    OBVIOUS
  <1>0. maxBytes \in Nat \ {0} /\ source.n \in Nat /\ Encoded(source.n) \in Nat
    BY EncodedLength DEF IInv, GivenTyped, Sourced
  <1>1. ASSUME NEW a \in DOMAIN This.args, Give(a) PROVE Returned'
    <2>1. UNCHANGED <<tool, maxBytes, words, source, sent, answer>>
      BY <1>1 DEF Give
    <2>2. Piped' = Piped
      BY <2>1, PipedStays
    <2>. QED  BY <2>1, <2>2 DEF Returned
  <1>2. CASE Validate
    <2>1. UNCHANGED <<tool, maxBytes, source, sent, answer>> /\ source = Nothing
      BY <1>2 DEF Validate, IInv, Sourced
    <2>. QED  BY <2>1 DEF Returned, Nothing
  <1>3. CASE RunSource
    <2>1. /\ UNCHANGED <<tool, maxBytes, words, answer>> /\ source' \in Ends
          /\ \/ Piped = "none" /\ sent' = [exit |-> source'.exit, err |-> source'.err,
                                           n |-> source'.n, cut |-> FALSE]
             \/ sent' = sent
      BY <1>3 DEF RunSource
    <2>2. Piped' = Piped
      BY <2>1, PipedStays
    <2>3. source'.exit \in ExitCodes /\ (Piped # "base64" => source'.n \in 0..1)
      BY <2>1, EndsBounded
    <2>4. sent'.exit \in ExitCodes /\ sent'.n \in 0..maxBytes /\ sent'.cut \in BOOLEAN
      <3>1. CASE sent' = sent
        BY <2>1, <3>1 DEF Returned
      <3>2. CASE Piped = "none" /\ sent' = [exit |-> source'.exit, err |-> source'.err,
                                           n |-> source'.n, cut |-> FALSE]
        <4>1. sent'.exit = source'.exit /\ sent'.n = source'.n /\ sent'.cut = FALSE
          BY <3>2
        <4>2. sent'.n \in 0..maxBytes
          BY <1>0, <2>3, <3>2, <4>1
        <4>. QED  BY <2>3, <4>1, <4>2, Zenon
      <3>. QED  BY <2>1, <3>1, <3>2
    <2>. QED  BY <2>1, <2>2, <2>3, <2>4 DEF Returned
  <1>4. CASE RunPipe
    <2>1. UNCHANGED <<tool, maxBytes, words, source, answer>>
      BY <1>4 DEF RunPipe
    <2>2. Piped' = Piped
      BY <2>1, PipedStays
    <2>3. ASSUME NEW exit \in ExitCodes, NEW err, NEW n \in 0..1, Through(exit, err, n)
          PROVE  sent'.exit \in ExitCodes /\ sent'.n \in 0..maxBytes /\ sent'.cut \in BOOLEAN
      BY <1>0, <2>3 DEF Through
    <2>4. 0 \in ExitCodes /\ 1 \in ExitCodes
      BY DEF ExitCodes
    <2>5. Piped # "base64" => source.n \in 0..1
      BY <1>0 DEF Returned
    <2>6. sent'.exit \in ExitCodes /\ sent'.n \in 0..maxBytes /\ sent'.cut \in BOOLEAN
      <3>1. CASE ThroughGrep \/ ThroughMerged \/ ThroughTail \/ ThroughScript
        <4>1. CASE ThroughGrep
          <5>1. CASE \E n \in 0..source.n : Through(0, source.err, n)
            <6>1. PICK n \in 0..source.n : Through(0, source.err, n)
              BY <5>1
            <6>2. n \in 0..1
              <7>1. Piped # "base64"
                BY <4>1 DEF ThroughGrep
              <7>. QED  BY <2>5, <7>1
            <6>. QED  BY <2>3, <2>4, <6>1, <6>2
          <5>2. CASE Through(1, source.err \cup {"bad pattern"}, 0)
            <6>1. 0 \in 0..1
              OBVIOUS
            <6>. QED  BY <2>3, <2>4, <5>2, <6>1
          <5>. QED  BY <4>1, <5>1, <5>2 DEF ThroughGrep
        <4>2. CASE ThroughMerged
          <5>1. CASE \E n \in 0..(IF source.n > 0 \/ source.err # {} THEN 1 ELSE 0) :
                       Through(0, {}, n)
            <6>1. PICK n \in 0..1 : Through(0, {}, n)
              BY <5>1
            <6>. QED  BY <2>3, <2>4, <6>1
          <5>2. CASE Through(1, {"bad pattern"}, 0)
            <6>1. 0 \in 0..1
              OBVIOUS
            <6>. QED  BY <2>3, <2>4, <5>2, <6>1
          <5>. QED  BY <4>2, <5>1, <5>2 DEF ThroughMerged
        <4>3. CASE ThroughTail
          BY <2>3, <2>4, <2>5, <4>3 DEF ThroughTail
        <4>4. CASE ThroughScript
          BY <2>3, <2>4, <4>4 DEF ThroughScript
        <4>. QED  BY <3>1, <4>1, <4>2, <4>3, <4>4
      <3>2. CASE ThroughBase64
        <4>1. sent'.n \in 0..maxBytes
          BY <1>0, <3>2 DEF ThroughBase64
        <4>2. sent'.exit = 0 /\ sent'.cut = (Encoded(source.n) > maxBytes)
          BY <3>2 DEF ThroughBase64
        <4>3. (Encoded(source.n) > maxBytes) \in BOOLEAN
          BY <1>0
        <4>. QED  BY <2>4, <4>1, <4>2, <4>3, Zenon
      <3>. QED  BY <1>4, <3>1, <3>2 DEF RunPipe
    <2>. QED  BY <2>1, <2>2, <2>6 DEF Returned
  <1>5. CASE TimeOut
    <2>1. UNCHANGED <<tool, maxBytes, words, source, answer>>
      BY <1>5 DEF TimeOut
    <2>2. Piped' = Piped
      BY <2>1, PipedStays
    <2>3. PICK got \in 0 .. (IF Piped = "base64" THEN Encoded(source.n)
                             ELSE IF Piped = "none" THEN 1 ELSE source.n) :
               sent' = [exit |-> 124, err |-> source.err, cut |-> got > maxBytes,
                        n |-> IF got > maxBytes THEN maxBytes ELSE got]
      BY <1>5 DEF TimeOut
    <2>4. sent'.n \in 0..maxBytes
      BY <1>0, <2>3
    <2>5. sent'.exit = 124 /\ sent'.cut = (got > maxBytes)
      BY <2>3
    <2>6. 124 \in ExitCodes
      BY DEF ExitCodes
    <2>7. (got > maxBytes) \in BOOLEAN
      BY <1>0, <2>3
    <2>8. sent'.exit \in ExitCodes /\ sent'.cut \in BOOLEAN
      BY <2>5, <2>6, <2>7, Zenon
    <2>. QED  BY <2>1, <2>2, <2>4, <2>8 DEF Returned
  <1>6. CASE Answer
    <2>1. UNCHANGED <<tool, maxBytes, words, source, sent>>
      BY <1>6 DEF Answer
    <2>2. Piped' = Piped
      BY <2>1, PipedStays
    <2>3. answer'.truncated = sent.cut
      BY <1>6 DEF Answer
    <2>4. answer'.exit \in {sent.exit, 1}
      BY <1>6 DEF Answer
    <2>5. answer'.n \in {0, sent.n, Decoded(sent.n, source.n)}
      BY <1>6 DEF Answer
    <2>6. answer'.n \in Nat
      BY <1>0, <2>5 DEF Returned, Decoded
    <2>7. answer'.exit \in ExitCodes
      BY <2>4 DEF Returned, ExitCodes
    <2>. QED  BY <2>1, <2>2, <2>3, <2>6, <2>7 DEF Returned
  <1>7. CASE UNCHANGED vars
    <2>1. UNCHANGED <<tool, maxBytes, words, source, sent, answer>>
      BY <1>7 DEF vars
    <2>2. Piped' = Piped
      BY <2>1, PipedStays
    <2>. QED  BY <2>1, <2>2 DEF Returned
  <1>. QED  BY <1>1, <1>2, <1>3, <1>4, <1>5, <1>6, <1>7 DEF Next

\* Both hold from the start.
LEMMA CalledHolds == Spec => [](Called /\ GivenIsUsed)
  <1>1. Init => Called /\ GivenIsUsed
    BY DEF Init, Called, GivenIsUsed, This
  <1>. QED  BY <1>1, CalledStep, PTL DEF Spec

\* What a call asks for is in its command, or the call is refused: nothing is
\* dropped but grep_flags without a pattern (ssh.py:100) and a decompress that
\* codec overrides (validate.py:275), for each of the tools.
THEOREM GivenUsed == Spec => []GivenIsUsed
  BY CalledHolds, PTL

\* A call keeps its tool and its arguments, an answer its status and its
\* length, for every cap and every bound.
THEOREM TypeCorrect == Spec => []TypeOK
  <1>1. Init => Returned
    <2>. SUFFICES ASSUME Init PROVE Returned
      OBVIOUS
    <2>1. /\ source.exit = 0 /\ sent.exit = 0 /\ answer.exit = 0
          /\ source.n = 0 /\ sent.n = 0 /\ answer.n = 0
          /\ sent.cut = FALSE /\ answer.truncated = FALSE /\ maxBytes \in Nat
      BY BoundsAssumption DEF Init, Nothing
    <2>2. sent.n \in 0..maxBytes /\ answer.n \in Nat /\ source.n <= 1 /\ 0 \in ExitCodes
      BY <2>1 DEF ExitCodes
    <2>. QED  BY <2>1, <2>2, Zenon DEF Returned
  <1>2. IInv /\ Called /\ Returned => TypeOK
    BY DEF IInv, Sourced, Called, Returned, TypeOK
  <1>. QED  BY <1>1, <1>2, ReturnedStep, IInvHolds, CalledHolds, PTL DEF Spec
=============================================================================

------------------------------ MODULE Reports ------------------------------
(***************************************************************************)
(* One call of a composite tool, triage or host_facts: the script runs     *)
(* probe after probe, the text of it may be cut off anywhere, by the cap   *)
(* on stdout or by the timeout (see RunSsh), and the handler reads facts   *)
(* and warnings from what it got.  It looks neither at the exit status nor *)
(* at truncated: these go to the client beside the report.                 *)
(***************************************************************************)
EXTENDS Triage, Facts

CONSTANTS
    TriageHosts,  \* what there is to be read of a host, for triage
    FactsHosts    \* the same, for host_facts

ASSUME HostsAssumption == TriageHosts \subseteq TriageHost /\ FactsHosts \subseteq FactsHost

VARIABLES
    tool,    \* "triage" or "host_facts"
    host,    \* one of the hosts
    pc,      \* "running", "received", "answered"
    done,    \* probes that printed all they have
    text,    \* the lines received
    cut,     \* [section, line] of the line cut off; 0 if none is
    facts,
    warnings

vars == <<tool, host, pc, done, text, cut, facts, warnings>>

Script == IF tool = "triage" THEN TriageScript(host) ELSE FactsScript(host)
Lines(p) == <<Mark(p.name)>> \o p.lines
Whole == [section |-> 0, line |-> 0]

Init ==
    /\ \/ tool = "triage" /\ host \in TriageHosts
       \/ tool = "host_facts" /\ host \in FactsHosts
    /\ pc = "running"
    /\ done = 0
    /\ text = <<>>
    /\ cut = Whole
    /\ facts = <<>>
    /\ warnings = {}

RunProbe ==
    /\ pc = "running"
    /\ done < Len(Script)
    /\ text' = text \o Lines(Script[done + 1])
    /\ done' = done + 1
    /\ UNCHANGED <<tool, host, pc, cut, facts, warnings>>

Receive ==
    /\ pc = "running"
    /\ done = Len(Script)
    /\ pc' = "received"
    /\ UNCHANGED <<tool, host, done, text, cut, facts, warnings>>

\* The text ends before line n of the next probe, or within it.
CutOff(n) ==
    LET lines == Lines(Script[done + 1])
    IN  /\ pc = "running"
        /\ done < Len(Script)
        /\ n <= Len(lines)
        /\ \E rest \in {<<>>} \cup {<<l>> : l \in CutLines(lines[n])} :
             text' = text \o SubSeq(lines, 1, n - 1) \o rest
        /\ cut' = [section |-> done + 1, line |-> n]
        /\ pc' = "received"
        /\ UNCHANGED <<tool, host, done, facts, warnings>>

\* handle_triage, handle_host_facts
Answer ==
    /\ pc = "received"
    /\ facts' = IF tool = "triage" THEN TriageFacts(text) ELSE FactsRead(text)
    /\ warnings' = IF tool = "triage" THEN Warnings(facts') ELSE {}
    /\ pc' = "answered"
    /\ UNCHANGED <<tool, host, done, text, cut>>

Next ==
    \/ RunProbe \/ Receive \/ Answer
    \/ \E n \in 1 .. (IF done < Len(Script) THEN Len(Lines(Script[done + 1])) ELSE 0) : CutOff(n)

Spec == Init /\ [][Next]_vars

-----------------------------------------------------------------------------
(* What the client can rely on.                                            *)

\* Every variable keeps its kind of value.
TypeOK ==
    /\ tool \in {"triage", "host_facts"}
    /\ pc \in {"running", "received", "answered"}
    /\ done \in 0 .. Len(Script)
    /\ cut.section \in 0 .. Len(Script)
    /\ \A i \in DOMAIN text : text[i].is = "===" \/ text[i].n >= 0
    /\ \A w \in warnings : w.severity \in {"warn", "crit"}
    /\ tool = "triage" /\ pc = "answered" =>
         facts.failed \in Nat /\ facts.nproc >= None /\ facts.reboot \in BOOLEAN

\* A report that came back whole says of the host what there is to be said, at
\* the thresholds of SPEC.md:1040 and the faults of triage.py:30-39, whatever
\* sources are missing and whatever totals are zero; host_facts takes a missing
\* virt for none.
WholeReportIsTrue ==
    pc = "answered" /\ cut = Whole =>
        IF tool = "triage" THEN warnings = Troubles(host) ELSE facts = FactsOf(host)

\* Of a report that was cut off, what was read before the cut stands, and no
\* warning is missing of it; a false alarm comes from the section cut, or from
\* the one before when a marker is cut and its rest reads as a line of that
\* one (triage.py:76-85), and is never about disks, pressure, processes,
\* clock offset, reboot or interfaces.
MayBeFalse ==
    {"high_load", "low_memory", "swap_pressure", "failed_units", "oom_recent", "clock_unsynced",
     "conntrack_full", "kernel_tainted"}
OnlyTheCutLies ==
    pc = "answered" /\ tool = "triage" /\ cut # Whole =>
        /\ \A w \in Troubles(host) \ warnings : SectionOf(w) >= cut.section
        /\ \A w \in warnings \ Troubles(host) :
             /\ w.kind \in MayBeFalse
             /\ \/ SectionOf(w) = cut.section
                \/ SectionOf(w) = cut.section - 1 /\ cut.line = 1

\* A capability said to be there is; one said not to be may be there only if
\* the text was cut off within its line, and then it is the last told
\* (facts.py:139-143).
CapabilityTold ==
    pc = "answered" /\ tool = "host_facts" =>
        /\ facts.has \subseteq host.binaries
        /\ \A t \in facts.hasNot \cap host.binaries :
             cut.section = 9 /\ cut.line = t + 1 /\ \A u \in facts.has : u < t

\* Facts of the sections before the cut stand.  If a marker was cut, what is
\* left of it is a line of the section before: a fact that is all of that text,
\* or its last word, is garbled; a number, the kernel, the capabilities and
\* is_virtual stand even so (facts.py:80-88, 117-154).
FactsStand ==
    pc = "answered" /\ tool = "host_facts" =>
        \A f \in DOMAIN FactSection : FactSection[f] < cut.section =>
            \/ facts[f] = FactsOf(host)[f]
            \/ /\ f \in TextFacts /\ facts[f] = Garbled
               /\ FactSection[f] = cut.section - 1 /\ cut.line = 1
=============================================================================

------------------------------- MODULE Triage -------------------------------
(***************************************************************************)
(* tools/triage.py: what the probes print, what is read back from it, and  *)
(* the warnings given.  A host is a function from what a probe reads to    *)
(* its value, None where the source is restricted or absent.  Load,        *)
(* pressure and clock offset are in hundredths, so that the quotients the  *)
(* code compares with a threshold are compared here as products.           *)
(***************************************************************************)
EXTENDS Sections, FiniteSets

\* Warnings, in the order of the sections they are read from: kind, severity, subject.
Warning(kind, severity, of) == [kind |-> kind, severity |-> severity, of |-> of]
Warn(kind) == {Warning(kind, "warn", "")}
Resources == {"cpu", "memory", "io"}

\* What there may be to read: a host has a processor and memory.
Traffic == [packets : Nat, bad : Nat]
TriageHost ==
  [ load1 : Reading, nproc : Reading \ {0}, memTotal : Reading \ {0}, memAvailable : Reading,
    swapTotal : Reading, swapFree : Reading, disks : Seq(Nat), failed : Nat, psiCpu : Reading,
    psiMemory : Reading, psiIo : Reading, oom : Nat, inodes : Seq(Nat), zombies : Nat,
    stuck : Nat, offset : Reading, leap : {0, 1, None}, count : Reading, max : Reading,
    reboot : {0, 1}, taint : Reading,
    nics : Seq([is : {"nic"}, n : {0}, rx : Traffic, tx : Traffic]) ]

-----------------------------------------------------------------------------
(* The script.                                                             *)

Times(k, is) == [i \in 1..k |-> Line(is, 0)]
\* df prints a header, then a row for each file system.
Table(pcts) == IF pcts = <<>> THEN <<>>
               ELSE <<Piece>> \o [i \in DOMAIN pcts |-> Line("row", pcts[i])]
\* A row of /proc/net/dev: packets, and errors and drops, received and sent.
Nic(rx, tx) == [is |-> "nic", n |-> 0, rx |-> rx, tx |-> tx]

TriageScript(h) ==
  << Probe("loadavg", Said("load1", h.load1)),
     Probe("nproc", Said("nproc", h.nproc)),
     Probe("meminfo", Said("MemTotal", h.memTotal) \o Said("MemAvailable", h.memAvailable)
                      \o Said("SwapTotal", h.swapTotal) \o Said("SwapFree", h.swapFree)),
     Probe("df", Table(h.disks)),
     Probe("failed_units", Times(h.failed, "unit")),
     Probe("psi_cpu", Said("psi_cpu", h.psiCpu)),
     Probe("psi_memory", Said("psi_memory", h.psiMemory)),
     Probe("psi_io", Said("psi_io", h.psiIo)),
     Probe("oom", Times(h.oom, "oom")),
     Probe("df_inodes", Table(h.inodes)),
     Probe("ps_states", <<Line("S", 0)>> \o Times(h.zombies, "Z") \o Times(h.stuck, "D")),
     Probe("top_cpu", <<Piece>>),
     Probe("clock", Said("offset", h.offset) \o Said("leap", h.leap)),
     Probe("conntrack", Said("count", h.count) \o Said("max", h.max)),
     Probe("reboot_required", <<Line(IF h.reboot = 1 THEN "yes" ELSE "no", 0)>>),
     Probe("kernel_taint", Said("taint", h.taint)),
     Probe("net_dev", h.nics),
     Probe("END", <<>>) >>

-----------------------------------------------------------------------------
(* Reading it back.                                                        *)

\* Mutant: any number in the row will do.
PercentsOfNumbers(text, name) ==
  LET lines == Under(text, name)
  IN  {text[i].n : i \in {j \in lines : text[j].is \in {"row", "blocks"} /\ \E k \in lines : k < j}}

\* _parse_disks: the tokens that end in %, but for the header.
Percents(text, name) ==
  LET lines == Under(text, name)
  IN  {text[i].n : i \in {j \in lines : text[j].is = "row" /\ \E k \in lines : k < j}}
\* Lines that are counted whatever they say.
NonBlank(text, name) == Cardinality(Under(text, name))
Count(text, name, is) == Cardinality({i \in Under(text, name) : text[i].is = is})

\* parse_triage
TriageFacts(text) ==
  LET number(name, is) == First(text, Under(text, name), is)
      tracked == /\ HasLine(text, Under(text, "conntrack"), "count")
                 /\ HasLine(text, Under(text, "conntrack"), "max")
  IN [ load1 |-> number("loadavg", "load1"),
       nproc |-> number("nproc", "nproc"),
       memTotal |-> number("meminfo", "MemTotal"),
       memAvailable |-> number("meminfo", "MemAvailable"),
       swapTotal |-> number("meminfo", "SwapTotal"),
       swapFree |-> number("meminfo", "SwapFree"),
       disks |-> Percents(text, "df"),
       failed |-> NonBlank(text, "failed_units"),
       psi |-> [cpu |-> number("psi_cpu", "psi_cpu"),
                memory |-> number("psi_memory", "psi_memory"),
                io |-> number("psi_io", "psi_io")],
       oom |-> NonBlank(text, "oom"),
       inodes |-> Percents(text, "df_inodes"),
       zombies |-> Count(text, "ps_states", "Z"),
       stuck |-> Count(text, "ps_states", "D"),
       offset |-> number("clock", "offset"),
       leap |-> number("clock", "leap"),
       count |-> IF tracked THEN number("conntrack", "count") ELSE None,
       max |-> IF tracked THEN number("conntrack", "max") ELSE None,
       reboot |-> HasLine(text, Under(text, "reboot_required"), "yes"),
       taint |-> number("kernel_taint", "taint"),
       nics |-> {text[i] : i \in {j \in Under(text, "net_dev") : text[j].is = "nic"}} ]

-----------------------------------------------------------------------------
(* The warnings.                                                           *)

\* Mutant: a severity that is not one of the two.
GradedCritical(kind, warn, crit) ==
  IF ~warn THEN {} ELSE {Warning(kind, IF crit THEN "critical" ELSE "warn", "")}

\* Of what is too full or too busy: a warning, critical past a second threshold.
Graded(kind, warn, crit) ==
  IF ~warn THEN {} ELSE {Warning(kind, IF crit THEN "crit" ELSE "warn", "")}
If(test, kind) == IF test THEN Warn(kind) ELSE {}

\* The bits of a kernel that is tainted by a fault: 2, 4, 5, 7, 9.
Faulty(taint) == \E k \in {4, 16, 32, 128, 512} : (taint \div k) % 2 = 1

\* Errors and drops: a hundred at least, and more than one packet in a hundred.
Noisy(way) == way.bad >= 100 /\ way.bad * 100 > way.packets + 1

LoadWarnings(f) ==
  Graded("high_load",
         f.load1 # None /\ f.nproc > 0 /\ 2 * f.load1 >= 300 * f.nproc,
         f.load1 >= 400 * f.nproc)

\* Mutant: a tenth left is too little already.
MemoryWarningsAtMost(f) ==
  Graded("low_memory",
         f.memTotal > 0 /\ f.memAvailable # None /\ 10 * f.memAvailable <= f.memTotal,
         20 * f.memAvailable <= f.memTotal)

MemoryWarnings(f) ==
  Graded("low_memory",
         f.memTotal > 0 /\ f.memAvailable # None /\ 10 * f.memAvailable < f.memTotal,
         20 * f.memAvailable < f.memTotal)
  \cup If(f.swapTotal > 0 /\ f.swapFree # None /\ 2 * (f.swapTotal - f.swapFree) > f.swapTotal,
          "swap_pressure")

Full(kind, pcts) == UNION {Graded(kind, p >= 90, p >= 95) : p \in pcts}

ClockWarnings(f) ==
  If(f.offset > 10, "clock_skew") \cup If(f.leap = 1, "clock_unsynced")

ConntrackWarnings(f) ==
  Graded("conntrack_full",
         f.count # None /\ f.max > 0 /\ 10 * f.count >= 9 * f.max, 20 * f.count >= 19 * f.max)

\* _build_warnings
Warnings(f) ==
  LoadWarnings(f) \cup MemoryWarnings(f)
  \cup Full("disk_full", f.disks)
  \cup If(f.failed > 0, "failed_units")
  \cup {Warning("pressure", "warn", r) : r \in {q \in Resources : f.psi[q] > 2000}}
  \cup (IF f.oom > 0 THEN {Warning("oom_recent", "crit", "")} ELSE {})
  \cup Full("inodes_full", f.inodes)
  \cup If(f.zombies >= 1, "zombie_procs") \cup If(f.stuck >= 5, "stuck_procs")
  \cup ClockWarnings(f) \cup ConntrackWarnings(f)
  \cup If(f.reboot, "reboot_required")
  \cup If(f.taint > 0 /\ Faulty(f.taint), "kernel_tainted")
  \cup If(\E n \in f.nics : Noisy(n.rx) \/ Noisy(n.tx), "nic_errors")

-----------------------------------------------------------------------------
(* What is wrong with a host, whatever is read of it: SPEC.md:1040, but    *)
(* that SPEC.md:1040 warns of every taint and the code, on purpose, of the *)
(* faults named in triage.py:30-39.  Shares are in thousandths.            *)
Share(part, whole) == (1000 * part) \div whole
Known(n) == n # None
\* A number is a sum of powers of two; whether this one is among them.
Sums(n, power) == n % (2 * power) >= power
FaultIn(taint) ==
  \/ Sums(taint, 4)    \* a CPU out of spec
  \/ Sums(taint, 16)   \* a machine check
  \/ Sums(taint, 32)   \* a bad page
  \/ Sums(taint, 128)  \* an oops or a BUG
  \/ Sums(taint, 512)  \* a warning issued
Level(kind, warn, crit) == IF crit THEN {Warning(kind, "crit", "")} ELSE If(warn, kind)

Troubles(h) ==
  (IF Known(h.load1) /\ Known(h.nproc)
   THEN LET perCPU == h.load1 \div h.nproc IN Level("high_load", perCPU >= 150, perCPU >= 400)
   ELSE {})
  \cup (IF Known(h.memTotal) /\ Known(h.memAvailable)
        THEN LET s == Share(h.memAvailable, h.memTotal) IN Level("low_memory", s < 100, s < 50)
        ELSE {})
  \cup (IF h.swapTotal > 0 /\ Known(h.swapFree)
        THEN If(Share(h.swapFree, h.swapTotal) < 500, "swap_pressure") ELSE {})
  \cup (UNION {Level("disk_full", h.disks[i] >= 90, h.disks[i] >= 95) : i \in DOMAIN h.disks})
  \cup (UNION {Level("inodes_full", h.inodes[i] >= 90, h.inodes[i] >= 95) : i \in DOMAIN h.inodes})
  \cup If(h.failed > 0, "failed_units")
  \cup {Warning("pressure", "warn", r) :
         r \in {q \in Resources : [cpu |-> h.psiCpu, memory |-> h.psiMemory, io |-> h.psiIo][q] > 2000}}
  \cup (IF h.oom > 0 THEN {Warning("oom_recent", "crit", "")} ELSE {})
  \cup If(h.zombies > 0, "zombie_procs") \cup If(h.stuck > 4, "stuck_procs")
  \cup If(h.offset > 10, "clock_skew") \cup If(h.leap = 1, "clock_unsynced")
  \cup (IF Known(h.count) /\ h.max > 0
        THEN LET s == Share(h.count, h.max) IN Level("conntrack_full", s >= 900, s >= 950)
        ELSE {})
  \cup If(h.reboot = 1, "reboot_required")
  \cup If(Known(h.taint) /\ FaultIn(h.taint), "kernel_tainted")
  \cup If(\E i \in DOMAIN h.nics : \E way \in {h.nics[i].rx, h.nics[i].tx} :
            way.bad >= 100 /\ Share(way.bad, way.packets + 1) >= 10
                           /\ 100 * way.bad # way.packets + 1, "nic_errors")

\* The section a kind of warning is read from.
TriageSection ==
  [ high_load |-> 2, low_memory |-> 3, swap_pressure |-> 3, disk_full |-> 4, failed_units |-> 5,
    oom_recent |-> 9, inodes_full |-> 10, zombie_procs |-> 11, stuck_procs |-> 11,
    clock_skew |-> 13, clock_unsynced |-> 13, conntrack_full |-> 14, reboot_required |-> 15,
    kernel_tainted |-> 16, nic_errors |-> 17 ]
SectionOf(w) ==
  IF w.kind = "pressure" THEN [cpu |-> 6, memory |-> 7, io |-> 8][w.of] ELSE TriageSection[w.kind]
=============================================================================

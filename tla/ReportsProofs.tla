--------------------------- MODULE ReportsProofs ---------------------------
(***************************************************************************)
(* Theorems about Reports, for every host whose sources say what FactsHost *)
(* and TriageHost allow, and every place where the text may be cut off.    *)
(***************************************************************************)
EXTENDS Reports, TLAPS, WellFoundedInduction, FiniteSetTheorems, SequenceTheorems

-----------------------------------------------------------------------------
(* Numbers.                                                                *)

\* A set of numbers that is not empty has a least element.
LEMMA Least ==
    ASSUME NEW S \in SUBSET Nat, S # {}
    PROVE  \E i \in S : \A j \in S : i <= j
  <1>. DEFINE Less == OpToRel(<, Nat)
  <1>1. PICK i \in S : \A j \in S : <<j, i>> \notin Less
    <2>1. IsWellFoundedOn(Less, Nat)
      BY NatLessThanWellFounded
    <2>. HIDE DEF Less
    <2>. QED  BY <2>1, WFMin
  <1>2. \A j \in S : ~(j < i)
    BY <1>1 DEF OpToRel
  <1>. QED  BY <1>2

\* A quotient reaches a number when the dividend reaches its product.
LEMMA Quotient ==
    ASSUME NEW a \in Nat, NEW b \in Nat \ {0}, NEW c \in Nat
    PROVE  a \div b >= c <=> a >= c * b
  <1>. DEFINE q == a \div b
  <1>1. q \in Nat /\ b * q <= a /\ a < b * q + b
    OBVIOUS
  <1>. HIDE DEF q
  <1>2. CASE q >= c
    <2>1. b * q >= b * c
      BY <1>1, <1>2
    <2>. QED  BY <1>1, <1>2, <2>1 DEF q
  <1>3. CASE q < c
    <2>1. q + 1 <= c
      BY <1>1, <1>3
    <2>2. b * (q + 1) <= b * c
      BY <1>1, <2>1
    <2>. QED  BY <1>1, <1>3, <2>2 DEF q
  <1>. QED  BY <1>1, <1>2, <1>3

-----------------------------------------------------------------------------
(* Lines and texts.                                                        *)

Words ==
    Counts \cup Cents \cup Begun \cup Texts \cup NameKinds
    \cup {"piece", "row", "blocks", "leap", "has", "has not", "uname", "yes", "no"}
Names ==
    {"loadavg", "nproc", "meminfo", "df", "failed_units", "psi_cpu", "psi_memory", "psi_io", "oom",
     "df_inodes", "ps_states", "top_cpu", "clock", "conntrack", "reboot_required", "kernel_taint",
     "net_dev", "END", "os_release", "uname", "mem_total", "virt", "container", "dmi_vendor",
     "dmi_product", "capabilities", "uptime", "now_utc", "whoami"}
LineType ==
    [is : Words, n : Nat]
    \cup [is : {"==="}, n : {0}, name : Names]
    \cup [is : {"nic"}, n : {0}, rx : Traffic, tx : Traffic]

\* Lines a probe may print.
Printed == {l \in LineType : l.is # "==="}

\* A sequence of some elements is one of more elements.
LEMMA Widened ==
    ASSUME NEW S, NEW T, S \subseteq T, NEW q \in Seq(S)
    PROVE  q \in Seq(T)
  <1>1. \A i \in 1..Len(q) : q[i] \in T
    OBVIOUS
  <1>. QED  BY <1>1

\* The parts of two sequences put together, and of one with an element between.
LEMMA Together ==
    ASSUME NEW S, NEW s \in Seq(S), NEW t \in Seq(S)
    PROVE  /\ s \o t \in Seq(S) /\ Len(s \o t) = Len(s) + Len(t)
           /\ \A i \in 1..Len(s) : (s \o t)[i] = s[i]
           /\ \A i \in 1..Len(t) : (s \o t)[Len(s) + i] = t[i]
  OBVIOUS

\* A line put between two texts, with every line at its place.
LEMMA Between ==
    ASSUME NEW S, NEW t \in Seq(S), NEW x \in S, NEW ls \in Seq(S),
           NEW u, u = t \o (<<x>> \o ls)
    PROVE  /\ u \in Seq(S) /\ Len(u) = Len(t) + 1 + Len(ls)
           /\ \A i \in 1..Len(t) : u[i] = t[i]
           /\ u[Len(t) + 1] = x
           /\ \A i \in 1..Len(ls) : u[Len(t) + 1 + i] = ls[i]
  <1>. DEFINE v == <<x>> \o ls
  <1>1. v \in Seq(S) /\ Len(v) = 1 + Len(ls)
    <2>1. <<x>> \in Seq(S) /\ Len(<<x>>) = 1
      OBVIOUS
    <2>. QED  BY <2>1, Together
  <1>2. v[1] = x /\ \A i \in 1..Len(ls) : v[1 + i] = ls[i]
    <2>1. <<x>> \in Seq(S) /\ Len(<<x>>) = 1 /\ <<x>>[1] = x
      OBVIOUS
    <2>2. 1 \in 1..Len(<<x>>)
      BY <2>1
    <2>. QED  BY <2>1, <2>2, Together
  <1>. HIDE DEF v
  <1>3. Len(ls) \in Nat /\ Len(t) \in Nat
    OBVIOUS
  <1>4. /\ t \o v \in Seq(S) /\ Len(t \o v) = Len(t) + Len(v)
        /\ \A i \in 1..Len(t) : (t \o v)[i] = t[i]
        /\ \A i \in 1..Len(v) : (t \o v)[Len(t) + i] = v[i]
    <2>1. v \in Seq(S)
      BY <1>1
    <2>. QED  BY <2>1
  <1>5. (t \o v)[Len(t) + 1] = v[1]
    <2>1. 1 \in 1..Len(v)
      BY <1>1, <1>3
    <2>. QED  BY <1>4, <2>1
  <1>6. ASSUME NEW i \in 1..Len(ls) PROVE (t \o v)[Len(t) + 1 + i] = ls[i]
    <2>1. 1 + i \in 1..Len(v) /\ Len(t) + (1 + i) = Len(t) + 1 + i
      BY <1>1, <1>3
    <2>2. (t \o v)[Len(t) + (1 + i)] = v[1 + i]
      BY <1>4, <2>1
    <2>3. v[1 + i] = ls[i]
      BY <1>2
    <2>. QED  BY <2>1, <2>2, <2>3
  <1>7. u = t \o v
    BY DEF v
  <1>8. Len(u) = Len(t) + 1 + Len(ls)
    BY <1>1, <1>3, <1>4, <1>7
  <1>. QED  BY <1>2, <1>4, <1>5, <1>6, <1>7, <1>8

\* A text with a section added.
Added(t, name, ls) == t \o (<<Mark(name)>> \o ls)

\* _split_sections gives a marker the lines after it, and leaves the sections
\* of other names alone (triage.py:76-85).
LEMMA Sectioned ==
    ASSUME NEW t \in Seq(LineType), NEW name \in Names, NEW ls \in Seq(Printed),
           NEW u, u = Added(t, name, ls)
    PROVE  /\ \A x : x # name => Under(u, x) = Under(t, x)
           /\ (\A i \in DOMAIN t : t[i].is = "===" => t[i].name # name) =>
                Under(u, name) = (Len(t) + 2) .. (Len(t) + 1 + Len(ls))
  <1>1. /\ u \in Seq(LineType) /\ Len(u) = Len(t) + 1 + Len(ls)
        /\ \A i \in 1..Len(t) : u[i] = t[i]
        /\ u[Len(t) + 1] = Mark(name)
        /\ \A i \in 1..Len(ls) : u[Len(t) + 1 + i] = ls[i]
    <2>1. Mark(name) \in LineType
      BY DEF Mark, LineType
    <2>2. ls \in Seq(LineType)
      BY DEF Printed
    <2>. DEFINE x == Mark(name)
    <2>3. x \in LineType /\ u = t \o (<<x>> \o ls)
      BY <2>1 DEF Added
    <2>. HIDE DEF x
    <2>4. /\ u \in Seq(LineType) /\ Len(u) = Len(t) + 1 + Len(ls)
          /\ \A i \in 1..Len(t) : u[i] = t[i]
          /\ u[Len(t) + 1] = x
          /\ \A i \in 1..Len(ls) : u[Len(t) + 1 + i] = ls[i]
      BY <2>2, <2>3, Between
    <2>. QED  BY <2>4 DEF x
  <1>2. Len(t) \in Nat /\ Len(ls) \in Nat /\ DOMAIN t = 1..Len(t) /\ DOMAIN u = 1..Len(u)
    BY <1>1
  <1>3. \A i \in (Len(t) + 2) .. Len(u) : u[i].is # "==="
    <2>. SUFFICES ASSUME NEW i \in (Len(t) + 2) .. Len(u) PROVE u[i].is # "==="
      OBVIOUS
    <2>1. i - Len(t) - 1 \in 1..Len(ls) /\ i = Len(t) + 1 + (i - Len(t) - 1)
      BY <1>1, <1>2
    <2>2. u[i] = ls[i - Len(t) - 1]
      BY <1>1, <2>1
    <2>. QED  BY <2>1, <2>2 DEF Printed
  <1>4. Mark(name).is = "===" /\ Mark(name).name = name
    BY DEF Mark
  <1>5. ASSUME NEW m \in 1..Len(t) PROVE Own(u, m) = Own(t, m)
    <2>1. ASSUME NEW i \in Own(u, m) PROVE i \in Own(t, m)
      <3>1. i \in (m + 1) .. Len(u) /\ \A k \in (m + 1)..i : u[k].is # "==="
        BY <2>1 DEF Own
      <3>2. i <= Len(t)
        <4>. SUFFICES ASSUME i > Len(t) PROVE FALSE
          BY <1>2, <3>1
        <4>1. Len(t) + 1 \in (m + 1)..i
          BY <1>2, <3>1
        <4>. QED  BY <1>1, <1>4, <3>1, <4>1
      <3>3. \A k \in (m + 1)..i : u[k] = t[k]
        <4>. SUFFICES ASSUME NEW k \in (m + 1)..i PROVE u[k] = t[k]
          OBVIOUS
        <4>1. k \in 1..Len(t)
          BY <1>2, <3>1, <3>2
        <4>. QED  BY <1>1, <4>1
      <3>. QED  BY <1>2, <3>1, <3>2, <3>3 DEF Own
    <2>2. ASSUME NEW i \in Own(t, m) PROVE i \in Own(u, m)
      <3>1. i \in (m + 1) .. Len(t) /\ \A k \in (m + 1)..i : t[k].is # "==="
        BY <2>2 DEF Own
      <3>2. \A k \in (m + 1)..i : u[k] = t[k]
        BY <1>1, <1>2, <3>1
      <3>3. i \in (m + 1) .. Len(u)
        BY <1>1, <1>2, <3>1
      <3>. QED  BY <3>1, <3>2, <3>3 DEF Own
    <2>. QED  BY <2>1, <2>2
  <1>6. Own(u, Len(t) + 1) = (Len(t) + 2) .. Len(u)
    BY <1>2, <1>3 DEF Own
  <1>7. \A i \in DOMAIN u : u[i].is = "===" => i \in 1..Len(t) \/ i = Len(t) + 1
    <2>. SUFFICES ASSUME NEW i \in DOMAIN u, u[i].is = "==="
                  PROVE  i \in 1..Len(t) \/ i = Len(t) + 1
      OBVIOUS
    <2>1. i \in 1..Len(u)
      BY <1>2
    <2>2. i \notin (Len(t) + 2) .. Len(u)
      BY <1>3
    <2>. QED  BY <1>2, <2>1, <2>2
  <1>. DEFINE At(v, x) == {i \in DOMAIN v : v[i].is = "===" /\ v[i].name = x}
  <1>8. ASSUME NEW x, x # name PROVE Under(u, x) = Under(t, x)
    <2>1. At(u, x) = At(t, x) /\ At(t, x) \subseteq 1..Len(t)
      <3>1. ASSUME NEW i \in At(u, x) PROVE i \in At(t, x)
        BY <1>1, <1>2, <1>4, <1>7, <1>8, <3>1
      <3>2. ASSUME NEW i \in At(t, x) PROVE i \in At(u, x)
        BY <1>1, <1>2, <3>2
      <3>. QED  BY <1>2, <3>1, <3>2
    <2>2. Under(u, x) = UNION {Own(u, m) : m \in At(u, x)}
      BY DEF Under
    <2>3. Under(t, x) = UNION {Own(t, m) : m \in At(t, x)}
      BY DEF Under
    <2>. HIDE DEF At
    <2>4. \A m \in At(t, x) : Own(u, m) = Own(t, m)
      BY <1>5, <2>1
    <2>5. {Own(u, m) : m \in At(t, x)} = {Own(t, m) : m \in At(t, x)}
      BY <2>4
    <2>. QED  BY <2>1, <2>2, <2>3, <2>5, Zenon
  <1>9. ASSUME \A i \in DOMAIN t : t[i].is = "===" => t[i].name # name
        PROVE  Under(u, name) = (Len(t) + 2) .. (Len(t) + 1 + Len(ls))
    <2>1. At(u, name) = {Len(t) + 1}
      BY <1>1, <1>2, <1>4, <1>7, <1>9
    <2>2. Under(u, name) = UNION {Own(u, m) : m \in At(u, name)}
      BY DEF Under
    <2>. HIDE DEF At
    <2>3. {Own(u, m) : m \in {Len(t) + 1}} = {Own(u, Len(t) + 1)}
      OBVIOUS
    <2>4. Under(u, name) = Own(u, Len(t) + 1)
      BY <2>1, <2>2, <2>3
    <2>. QED  BY <1>1, <1>6, <2>4
  <1>. QED  BY <1>8, <1>9

-----------------------------------------------------------------------------
(* The scripts.                                                            *)

\* The sections of triage, one by one.
LEMMA TriageNames ==
    ASSUME NEW h
    PROVE  /\ Len(TriageScript(h)) = 18
           /\ TriageScript(h)[1].name = "loadavg"
           /\ TriageScript(h)[2].name = "nproc"
           /\ TriageScript(h)[3].name = "meminfo"
           /\ TriageScript(h)[4].name = "df"
           /\ TriageScript(h)[5].name = "failed_units"
           /\ TriageScript(h)[6].name = "psi_cpu"
           /\ TriageScript(h)[7].name = "psi_memory"
           /\ TriageScript(h)[8].name = "psi_io"
           /\ TriageScript(h)[9].name = "oom"
           /\ TriageScript(h)[10].name = "df_inodes"
           /\ TriageScript(h)[11].name = "ps_states"
           /\ TriageScript(h)[12].name = "top_cpu"
           /\ TriageScript(h)[13].name = "clock"
           /\ TriageScript(h)[14].name = "conntrack"
           /\ TriageScript(h)[15].name = "reboot_required"
           /\ TriageScript(h)[16].name = "kernel_taint"
           /\ TriageScript(h)[17].name = "net_dev"
           /\ TriageScript(h)[18].name = "END"
  BY DEF TriageScript, Probe

\* What their probes print.
LEMMA TriageLines ==
    ASSUME NEW h
    PROVE  /\ Len(TriageScript(h)) = 18
           /\ TriageScript(h)[1].lines = Said("load1", h.load1)
           /\ TriageScript(h)[2].lines = Said("nproc", h.nproc)
           /\ TriageScript(h)[3].lines =
                Said("MemTotal", h.memTotal) \o Said("MemAvailable", h.memAvailable)
                \o Said("SwapTotal", h.swapTotal) \o Said("SwapFree", h.swapFree)
           /\ TriageScript(h)[4].lines = Table(h.disks)
           /\ TriageScript(h)[5].lines = Times(h.failed, "unit")
           /\ TriageScript(h)[6].lines = Said("psi_cpu", h.psiCpu)
           /\ TriageScript(h)[7].lines = Said("psi_memory", h.psiMemory)
           /\ TriageScript(h)[8].lines = Said("psi_io", h.psiIo)
           /\ TriageScript(h)[9].lines = Times(h.oom, "oom")
           /\ TriageScript(h)[10].lines = Table(h.inodes)
           /\ TriageScript(h)[11].lines =
                <<Line("S", 0)>> \o Times(h.zombies, "Z") \o Times(h.stuck, "D")
           /\ TriageScript(h)[12].lines = <<Piece>>
           /\ TriageScript(h)[13].lines = Said("offset", h.offset) \o Said("leap", h.leap)
           /\ TriageScript(h)[14].lines = Said("count", h.count) \o Said("max", h.max)
           /\ TriageScript(h)[15].lines = <<Line(IF h.reboot = 1 THEN "yes" ELSE "no", 0)>>
           /\ TriageScript(h)[16].lines = Said("taint", h.taint)
           /\ TriageScript(h)[17].lines = h.nics
           /\ TriageScript(h)[18].lines = <<>>
  BY DEF TriageScript, Probe

\* The same of host_facts.
LEMMA FactsNames ==
    ASSUME NEW h
    PROVE  /\ Len(FactsScript(h)) = 13
           /\ FactsScript(h)[1].name = "os_release"
           /\ FactsScript(h)[2].name = "uname"
           /\ FactsScript(h)[3].name = "nproc"
           /\ FactsScript(h)[4].name = "mem_total"
           /\ FactsScript(h)[5].name = "virt"
           /\ FactsScript(h)[6].name = "container"
           /\ FactsScript(h)[7].name = "dmi_vendor"
           /\ FactsScript(h)[8].name = "dmi_product"
           /\ FactsScript(h)[9].name = "capabilities"
           /\ FactsScript(h)[10].name = "uptime"
           /\ FactsScript(h)[11].name = "now_utc"
           /\ FactsScript(h)[12].name = "whoami"
           /\ FactsScript(h)[13].name = "END"
  BY DEF FactsScript, Probe

\* What each command of host_facts prints.
LEMMA FactsLines ==
    ASSUME NEW h
    PROVE  /\ Len(FactsScript(h)) = 13
           /\ FactsScript(h)[1].lines = Said("ID", h.id)
           /\ FactsScript(h)[2].lines = Said("uname", h.uname)
           /\ FactsScript(h)[3].lines = Said("nproc", h.nproc)
           /\ FactsScript(h)[4].lines = Said("MemTotal", h.memTotal)
           /\ FactsScript(h)[5].lines = Said("virt", h.virt)
           /\ FactsScript(h)[6].lines = Said("container", h.container)
           /\ FactsScript(h)[7].lines = Said("vendor", h.vendor)
           /\ FactsScript(h)[8].lines = Said("product", h.product)
           /\ FactsScript(h)[9].lines =
                [t \in 1..Binaries |-> Line(IF t \in h.binaries THEN "has" ELSE "has not", t)]
           /\ FactsScript(h)[10].lines = Said("uptime", h.uptime)
           /\ FactsScript(h)[11].lines = Said("now", h.now)
           /\ FactsScript(h)[12].lines = Said("user", h.user)
           /\ FactsScript(h)[13].lines = <<>>
  BY DEF FactsScript, Probe

\* A script has sections of different names, and lines that are no markers.
WellMade(s) ==
    /\ Len(s) \in Nat \ {0}
    /\ \A k \in 1..Len(s) :
         /\ s[k].name \in Names /\ s[k].lines \in Seq(Printed)
         /\ \A j \in 1..Len(s) : s[j].name = s[k].name => j = k

\* No two sections of host_triage have one name.
LEMMA TriageNamed ==
    ASSUME NEW h, NEW j \in 1..18, NEW k \in 1..18
    PROVE  /\ TriageScript(h)[k].name \in Names
           /\ TriageScript(h)[j].name = TriageScript(h)[k].name => j = k
  <1>. DEFINE s == TriageScript(h)
  <1>1. PICK o : o = [loadavg |-> 1, nproc |-> 2, meminfo |-> 3, df |-> 4, failed_units |-> 5,
                      psi_cpu |-> 6, psi_memory |-> 7, psi_io |-> 8, oom |-> 9, df_inodes |-> 10,
                      ps_states |-> 11, top_cpu |-> 12, clock |-> 13, conntrack |-> 14,
                      reboot_required |-> 15, kernel_taint |-> 16, net_dev |-> 17, END |-> 18]
    OBVIOUS
  <1>2. ASSUME NEW i \in 1..18 PROVE o[s[i].name] = i /\ s[i].name \in Names
    BY <1>1, TriageNames DEF Names
  <1>. QED  BY <1>2

\* No two sections of host_facts have one name.
LEMMA FactsNamed ==
    ASSUME NEW h, NEW j \in 1..13, NEW k \in 1..13
    PROVE  /\ FactsScript(h)[k].name \in Names
           /\ FactsScript(h)[j].name = FactsScript(h)[k].name => j = k
  <1>. DEFINE s == FactsScript(h)
  <1>1. PICK o : o = [os_release |-> 1, uname |-> 2, nproc |-> 3, mem_total |-> 4, virt |-> 5,
                      container |-> 6, dmi_vendor |-> 7, dmi_product |-> 8, capabilities |-> 9,
                      uptime |-> 10, now_utc |-> 11, whoami |-> 12, END |-> 13]
    OBVIOUS
  <1>2. ASSUME NEW i \in 1..13 PROVE o[s[i].name] = i /\ s[i].name \in Names
    BY <1>1, FactsNames DEF Names
  <1>. QED  BY <1>2

\* Lines of the kinds that probes print.
LEMMA LineTyped ==
    ASSUME NEW is \in Words, NEW n \in Nat
    PROVE  Line(is, n) \in Printed
  <1>1. is # "==="
    BY DEF Words, Counts, Cents, Begun, Texts, NameKinds
  <1>. QED  BY <1>1 DEF Line, Printed, LineType

\* A source that says a number or nothing prints lines.
LEMMA SaidTyped ==
    ASSUME NEW is \in Words, NEW n \in Reading
    PROVE  Said(is, n) \in Seq(Printed)
  <1>1. CASE n = None
    BY <1>1 DEF Said
  <1>2. CASE n # None
    <2>1. Line(is, n) \in Printed
      BY <1>2, LineTyped DEF Reading
    <2>. QED  BY <1>2, <2>1 DEF Said
  <1>. QED  BY <1>1, <1>2

\* A line printed n times is a sequence of lines.
LEMMA TimesTyped ==
    ASSUME NEW is \in Words, NEW n \in Nat
    PROVE  Times(n, is) \in Seq(Printed)
  <1>1. Line(is, 0) \in Printed
    BY LineTyped
  <1>. QED  BY <1>1 DEF Times

\* A single line is a sequence of lines.
LEMMA OneTyped ==
    ASSUME NEW is \in Words
    PROVE  <<Line(is, 0)>> \in Seq(Printed)
  <1>1. Line(is, 0) \in Printed
    BY LineTyped
  <1>. QED  BY <1>1

\* So is a line that says nothing.
LEMMA PieceTyped == Piece \in Printed /\ <<Piece>> \in Seq(Printed)
  <1>1. "piece" \in Words
    BY DEF Words
  <1>. QED  BY <1>1, LineTyped, OneTyped DEF Piece

\* A table is a sequence of lines: its heading, then its rows.
LEMMA TableTyped ==
    ASSUME NEW pcts \in Seq(Nat)
    PROVE  Table(pcts) \in Seq(Printed)
  <1>1. \A i \in DOMAIN pcts : Line("row", pcts[i]) \in Printed
    <2>1. "row" \in Words
      BY DEF Words
    <2>. QED  BY <2>1, LineTyped
  <1>2. [i \in DOMAIN pcts |-> Line("row", pcts[i])] \in Seq(Printed)
    BY <1>1
  <1>. QED  BY <1>2, PieceTyped, Together DEF Table

\* The sections of host_triage have names of their own and print lines.
LEMMA TriageWellMade ==
    ASSUME NEW h \in TriageHost
    PROVE  WellMade(TriageScript(h))
  <1>. DEFINE s == TriageScript(h)
              P == Seq(Printed)
  <1>1. /\ Len(s) = 18 /\ s[12].lines = <<Piece>> /\ s[18].lines = <<>>
        /\ s[1].lines = Said("load1", h.load1) /\ s[2].lines = Said("nproc", h.nproc)
        /\ s[6].lines = Said("psi_cpu", h.psiCpu) /\ s[7].lines = Said("psi_memory", h.psiMemory)
        /\ s[8].lines = Said("psi_io", h.psiIo) /\ s[16].lines = Said("taint", h.taint)
        /\ s[4].lines = Table(h.disks) /\ s[10].lines = Table(h.inodes)
        /\ s[5].lines = Times(h.failed, "unit") /\ s[9].lines = Times(h.oom, "oom")
        /\ s[15].lines = <<Line(IF h.reboot = 1 THEN "yes" ELSE "no", 0)>>
        /\ s[17].lines = h.nics
        /\ s[3].lines = Said("MemTotal", h.memTotal) \o Said("MemAvailable", h.memAvailable)
                        \o Said("SwapTotal", h.swapTotal) \o Said("SwapFree", h.swapFree)
        /\ s[11].lines = <<Line("S", 0)>> \o Times(h.zombies, "Z") \o Times(h.stuck, "D")
        /\ s[13].lines = Said("offset", h.offset) \o Said("leap", h.leap)
        /\ s[14].lines = Said("count", h.count) \o Said("max", h.max)
    BY TriageLines
  <1>2. {"load1", "nproc", "psi_cpu", "psi_memory", "psi_io", "taint", "unit", "oom", "yes", "no",
         "MemTotal", "MemAvailable", "SwapTotal", "SwapFree", "S", "Z", "D", "offset", "leap",
         "count", "max"} \subseteq Words
    BY DEF Words, Counts, Cents, Begun
  <1>3. /\ h.load1 \in Reading /\ h.nproc \in Reading /\ h.memTotal \in Reading
        /\ h.memAvailable \in Reading /\ h.swapTotal \in Reading /\ h.swapFree \in Reading
        /\ h.psiCpu \in Reading /\ h.psiMemory \in Reading /\ h.psiIo \in Reading
        /\ h.offset \in Reading /\ h.leap \in Reading /\ h.count \in Reading
        /\ h.max \in Reading /\ h.taint \in Reading
        /\ h.disks \in Seq(Nat) /\ h.inodes \in Seq(Nat) /\ h.failed \in Nat /\ h.oom \in Nat
        /\ h.zombies \in Nat /\ h.stuck \in Nat
    BY DEF TriageHost, Reading
  <1>4. h.nics \in P
    <2>1. h.nics \in Seq([is : {"nic"}, n : {0}, rx : Traffic, tx : Traffic])
      BY DEF TriageHost
    <2>2. [is : {"nic"}, n : {0}, rx : Traffic, tx : Traffic] \subseteq Printed
      BY DEF Printed, LineType
    <2>. QED  BY <2>1, <2>2, Widened
  <1>. HIDE DEF s
  <1>5. /\ s[1].lines \in P /\ s[2].lines \in P /\ s[6].lines \in P /\ s[7].lines \in P
        /\ s[8].lines \in P /\ s[16].lines \in P
    <2>1. /\ Said("load1", h.load1) \in P /\ Said("nproc", h.nproc) \in P
          /\ Said("psi_cpu", h.psiCpu) \in P /\ Said("psi_memory", h.psiMemory) \in P
          /\ Said("psi_io", h.psiIo) \in P /\ Said("taint", h.taint) \in P
      BY <1>2, <1>3, SaidTyped
    <2>. QED  BY <1>1, <2>1
  <1>6. s[4].lines \in P /\ s[10].lines \in P
    BY <1>1, <1>3, TableTyped
  <1>7. s[5].lines \in P /\ s[9].lines \in P
    BY <1>1, <1>2, <1>3, TimesTyped
  <1>8. s[15].lines \in P
    <2>1. CASE h.reboot = 1
      BY <1>1, <1>2, <2>1, OneTyped
    <2>2. CASE h.reboot # 1
      BY <1>1, <1>2, <2>2, OneTyped
    <2>. QED  BY <2>1, <2>2
  <1>9. s[3].lines \in P
    <2>1. /\ Said("MemTotal", h.memTotal) \in P /\ Said("MemAvailable", h.memAvailable) \in P
          /\ Said("SwapTotal", h.swapTotal) \in P /\ Said("SwapFree", h.swapFree) \in P
      BY <1>2, <1>3, SaidTyped
    <2>. QED  BY <1>1, <2>1
  <1>10. s[11].lines \in P
    <2>1. <<Line("S", 0)>> \in P /\ Times(h.zombies, "Z") \in P /\ Times(h.stuck, "D") \in P
      BY <1>2, <1>3, OneTyped, TimesTyped
    <2>. QED  BY <1>1, <2>1
  <1>11. s[13].lines \in P /\ s[14].lines \in P
    <2>1. /\ Said("offset", h.offset) \in P /\ Said("leap", h.leap) \in P
          /\ Said("count", h.count) \in P /\ Said("max", h.max) \in P
      BY <1>2, <1>3, SaidTyped
    <2>. QED  BY <1>1, <2>1
  <1>12. s[12].lines \in P /\ s[17].lines \in P /\ s[18].lines \in P
    BY <1>1, <1>4, PieceTyped
  <1>. HIDE DEF P
  <1>13. \A k \in 1..18 : s[k].lines \in P
    BY <1>5, <1>6, <1>7, <1>8, <1>9, <1>10, <1>11, <1>12
  <1>14. \A k \in 1..18, j \in 1..18 :
            s[k].name \in Names /\ (s[j].name = s[k].name => j = k)
    BY TriageNamed DEF s
  <1>15. WellMade(s)
    <2>1. Len(s) = 18
      BY <1>1
    <2>. QED  BY <1>13, <1>14, <2>1 DEF WellMade, P
  <1>. QED  BY <1>15 DEF s

\* So do the sections of host_facts.
LEMMA FactsWellMade ==
    ASSUME NEW h \in FactsHost
    PROVE  WellMade(FactsScript(h))
  <1>. DEFINE s == FactsScript(h)
              P == Seq(Printed)
              caps == [t \in 1..Binaries |-> Line(IF t \in h.binaries THEN "has" ELSE "has not", t)]
  <1>1. /\ Len(s) = 13 /\ s[13].lines = <<>>
        /\ s[8].lines = Said("product", h.product) /\ s[11].lines = Said("now", h.now)
        /\ s[1].lines = Said("ID", h.id) /\ s[2].lines = Said("uname", h.uname)
        /\ s[3].lines = Said("nproc", h.nproc) /\ s[4].lines = Said("MemTotal", h.memTotal)
        /\ s[5].lines = Said("virt", h.virt) /\ s[6].lines = Said("container", h.container)
        /\ s[7].lines = Said("vendor", h.vendor) /\ s[9].lines = caps
        /\ s[10].lines = Said("uptime", h.uptime) /\ s[12].lines = Said("user", h.user)
    BY FactsLines
  <1>2. {"ID", "uname", "nproc", "MemTotal", "virt", "container", "vendor", "product", "has",
         "has not", "uptime", "now", "user"} \subseteq Words
    BY DEF Words, Counts, Cents, Texts, NameKinds
  <1>3. /\ h.id \in Reading /\ h.uname \in Reading /\ h.nproc \in Reading
        /\ h.memTotal \in Reading /\ h.virt \in Reading /\ h.container \in Reading
        /\ h.vendor \in Reading /\ h.product \in Reading /\ h.uptime \in Reading
        /\ h.now \in Reading /\ h.user \in Reading
    BY DEF FactsHost, Reading
  <1>. DEFINE cap(t) == Line(IF t \in h.binaries THEN "has" ELSE "has not", t)
  <1>4. ASSUME NEW t \in 1..3 PROVE cap(t) \in Printed
    <2>1. "has" \in Words /\ "has not" \in Words
      BY DEF Words
    <2>2. t \in Nat
      OBVIOUS
    <2>3. Line("has", t) \in Printed
      BY <2>1, <2>2, LineTyped
    <2>4. Line("has not", t) \in Printed
      BY <2>1, <2>2, LineTyped
    <2>. QED  BY <2>3, <2>4
  <1>5. caps \in P
    <2>. HIDE DEF cap
    <2>1. caps = [t \in 1..3 |-> cap(t)]
      BY DEF Binaries, cap
    <2>2. [t \in 1..3 |-> cap(t)] \in Seq(Printed)
      BY <1>4
    <2>. QED  BY <2>1, <2>2
  <1>. HIDE DEF s, caps
  <1>6. s[9].lines \in P /\ s[13].lines \in P
    BY <1>1, <1>5
  <1>7. /\ s[1].lines \in P /\ s[2].lines \in P /\ s[3].lines \in P /\ s[4].lines \in P
        /\ s[5].lines \in P /\ s[6].lines \in P /\ s[7].lines \in P /\ s[8].lines \in P
        /\ s[10].lines \in P /\ s[11].lines \in P /\ s[12].lines \in P
    BY <1>1, <1>2, <1>3, SaidTyped
  <1>. HIDE DEF P
  <1>8. \A k \in 1..13 : s[k].lines \in P
    BY <1>7, <1>6
  <1>9. \A k \in 1..13, j \in 1..13 :
           s[k].name \in Names /\ (s[j].name = s[k].name => j = k)
    BY FactsNamed DEF s
  <1>10. WellMade(s)
    BY <1>1, <1>8, <1>9 DEF WellMade, P
  <1>. QED  BY <1>10 DEF s

-----------------------------------------------------------------------------
(* What is read of a section depends on its lines alone.                   *)

\* The text has the section, with these lines.
Reads(t, name, ls) ==
    \E m \in Nat :
        /\ m + Len(ls) <= Len(t)
        /\ Under(t, name) = (m + 1) .. (m + Len(ls))
        /\ \A i \in 1..Len(ls) : t[m + i] = ls[i]

\* What is read of some lines.
FirstIn(ls, is) == First(ls, 1..Len(ls), is)
HasIn(ls, is) == HasLine(ls, 1..Len(ls), is)
PercentsIn(ls) == {ls[i].n : i \in {j \in 1..Len(ls) : ls[j].is = "row" /\ 1 < j}}
\* The lines of a kind, and their numbers.
OfKind(t, lines, is) == {t[i] : i \in {j \in lines : t[j].is = is}}
NumbersOf(t, lines, is) == {t[i].n : i \in {j \in lines : t[j].is = is}}

\* The first line of a kind.
LEMMA FirstOne ==
    ASSUME NEW t, NEW L \in SUBSET Nat, NEW is, NEW i \in L, t[i].is = is,
           \A j \in L : t[j].is = is => i <= j
    PROVE  First(t, L, is) = t[i].n
  <1>. DEFINE at == {j \in L : t[j].is = is}
  <1>1. i \in at /\ \A j \in at : i <= j
    OBVIOUS
  <1>2. ASSUME NEW j \in at, \A k \in at : j <= k PROVE j = i
    <2>1. i \in Nat /\ j \in Nat /\ i <= j /\ j <= i
      BY <1>1, <1>2
    <2>. QED  BY <2>1
  <1>. HIDE DEF at
  <1>3. (CHOOSE j \in at : \A k \in at : j <= k) = i
    BY <1>1, <1>2
  <1>4. First(t, L, is) = IF at = {} THEN None ELSE t[CHOOSE j \in at : \A k \in at : j <= k].n
    BY DEF First, at
  <1>. QED  BY <1>1, <1>3, <1>4

\* A kind of line a section does not have reads as nothing.
LEMMA FirstNone ==
    ASSUME NEW t, NEW L, NEW is, \A j \in L : t[j].is # is
    PROVE  First(t, L, is) = None
  <1>1. {j \in L : t[j].is = is} = {}
    OBVIOUS
  <1>. QED  BY <1>1 DEF First

\* The number of a line is a number; the first of a kind is missing only when
\* there is no line of it.
LEMMA LineNumbered ==
    ASSUME NEW l \in LineType
    PROVE  l.n \in Nat
  BY DEF LineType

\* The number read is that of the first line of the kind.
LEMMA LeastOfKind ==
    ASSUME NEW ls, NEW is, Len(ls) \in Nat, HasIn(ls, is)
    PROVE  \E i \in 1..Len(ls) :
              /\ ls[i].is = is /\ FirstIn(ls, is) = ls[i].n
              /\ \A j \in 1..Len(ls) : ls[j].is = is => i <= j
  <1>. DEFINE at == {j \in 1..Len(ls) : ls[j].is = is}
  <1>1. at \in SUBSET Nat /\ at # {}
    BY DEF HasIn, HasLine
  <1>. HIDE DEF at
  <1>2. PICK i \in at : \A j \in at : i <= j
    BY <1>1, Least
  <1>3. i \in 1..Len(ls) /\ ls[i].is = is /\ \A j \in 1..Len(ls) : ls[j].is = is => i <= j
    BY <1>2 DEF at
  <1>4. 1..Len(ls) \in SUBSET Nat
    OBVIOUS
  <1>5. First(ls, 1..Len(ls), is) = ls[i].n
    BY <1>3, <1>4, FirstOne
  <1>. QED  BY <1>3, <1>5 DEF FirstIn

\* A line is there exactly when its number can be read.
LEMMA FirstKnown ==
    ASSUME NEW ls \in Seq(LineType), NEW is
    PROVE  /\ FirstIn(ls, is) \in Reading
           /\ HasIn(ls, is) <=> FirstIn(ls, is) # None
  <1>1. CASE HasIn(ls, is)
    <2>1. Len(ls) \in Nat
      OBVIOUS
    <2>2. PICK i \in 1..Len(ls) : FirstIn(ls, is) = ls[i].n
      BY <1>1, <2>1, LeastOfKind
    <2>3. ls[i] \in LineType
      OBVIOUS
    <2>4. ls[i].n \in Nat
      BY <2>3, LineNumbered
    <2>. QED  BY <1>1, <2>2, <2>4 DEF Reading, None
  <1>2. CASE ~HasIn(ls, is)
    <2>1. FirstIn(ls, is) = None
      BY <1>2, FirstNone DEF HasIn, HasLine, FirstIn
    <2>. QED  BY <1>2, <2>1 DEF Reading
  <1>. QED  BY <1>1, <1>2

\* First and HasLine of a section of the text are those of its lines.
LEMMA ReadFirst ==
    ASSUME NEW t, NEW name, NEW ls, Len(ls) \in Nat, Reads(t, name, ls), NEW is
    PROVE  /\ First(t, Under(t, name), is) = FirstIn(ls, is)
           /\ HasLine(t, Under(t, name), is) = HasIn(ls, is)
  <1>. DEFINE U == Under(t, name)
              n == Len(ls)
  <1>1. PICK m \in Nat : U = (m + 1) .. (m + n) /\ \A i \in 1..n : t[m + i] = ls[i]
    BY DEF Reads
  <1>2. \A i \in 1..n : m + i \in U
    BY <1>1
  <1>3. \A j \in U : j - m \in 1..n /\ t[j] = ls[j - m] /\ j \in Nat
    <2>. SUFFICES ASSUME NEW j \in U PROVE j - m \in 1..n /\ t[j] = ls[j - m] /\ j \in Nat
      OBVIOUS
    <2>1. j \in (m + 1) .. (m + n)
      BY <1>1
    <2>2. j - m \in 1..n /\ j = m + (j - m) /\ j \in Nat
      BY <2>1
    <2>. QED  BY <1>1, <2>2
  <1>4. HasLine(t, U, is) = HasIn(ls, is)
    <2>1. HasLine(t, U, is) => HasIn(ls, is)
      BY <1>3 DEF HasLine, HasIn
    <2>2. HasIn(ls, is) => HasLine(t, U, is)
      BY <1>1, <1>2 DEF HasLine, HasIn
    <2>3. HasLine(t, U, is) \in BOOLEAN /\ HasIn(ls, is) \in BOOLEAN
      BY DEF HasLine, HasIn
    <2>. QED  BY <2>1, <2>2, <2>3
  <1>5. CASE HasIn(ls, is)
    <2>1. PICK i \in 1..n : /\ ls[i].is = is /\ FirstIn(ls, is) = ls[i].n
                            /\ \A j \in 1..n : ls[j].is = is => i <= j
      BY <1>5, LeastOfKind
    <2>2. m + i \in U /\ t[m + i].is = is /\ t[m + i].n = ls[i].n /\ U \in SUBSET Nat
      BY <1>1, <1>2, <1>3, <2>1
    <2>3. ASSUME NEW j \in U, t[j].is = is PROVE m + i <= j
      <3>1. j - m \in 1..n /\ ls[j - m].is = is /\ j \in Nat
        BY <1>3, <2>3
      <3>2. i <= j - m
        BY <2>1, <3>1
      <3>. QED  BY <3>1, <3>2
    <2>. HIDE DEF U
    <2>. QED  BY <2>1, <2>2, <2>3, <1>4, FirstOne DEF U
  <1>6. CASE ~HasIn(ls, is)
    <2>1. First(t, U, is) = None
      <3>. HIDE DEF U
      <3>. QED  BY <1>4, <1>6, FirstNone DEF HasLine
    <2>2. FirstIn(ls, is) = None
      BY <1>6, FirstNone DEF HasIn, HasLine, FirstIn
    <2>. QED  BY <1>4, <2>1, <2>2
  <1>. QED  BY <1>5, <1>6

\* How many lines a section has, and how many of a kind that stands in one place.
LEMMA Counted ==
    ASSUME NEW t, NEW name, NEW ls, Len(ls) \in Nat, Reads(t, name, ls)
    PROVE  NonBlank(t, name) = Len(ls)
  <1>1. PICK m \in Nat : Under(t, name) = (m + 1) .. (m + Len(ls))
    BY DEF Reads
  <1>. DEFINE b == m + Len(ls)
  <1>2. m + 1 \in Int /\ b \in Int
    OBVIOUS
  <1>3. Cardinality((m + 1) .. b) = IF m + 1 > b THEN 0 ELSE b - (m + 1) + 1
    <2>. HIDE DEF b
    <2>. QED  BY <1>2, FS_Interval
  <1>. QED  BY <1>1, <1>3 DEF NonBlank
\* The lines of a kind are some of the n after line a, or all of them.
Within(ls, is, a, n) == \A i \in 1..Len(ls) : ls[i].is = is => i \in (a + 1) .. (a + n)
Fills(ls, is, a, n) == \A i \in (a + 1) .. (a + n) : i \in 1..Len(ls) /\ ls[i].is = is

\* Lines of a kind that lie in n places are at most n, and n when they fill them.
LEMMA CountedKind ==
    ASSUME NEW t, NEW name, NEW ls, Len(ls) \in Nat, Reads(t, name, ls), NEW is,
           NEW a \in Nat, NEW n \in Nat, Within(ls, is, a, n)
    PROVE  /\ Count(t, name, is) \in Nat
           /\ Count(t, name, is) <= n
           /\ Fills(ls, is, a, n) => Count(t, name, is) = n
  <1>. DEFINE U == Under(t, name)
              K == {i \in U : t[i].is = is}
  <1>1. PICK m \in Nat : /\ U = (m + 1) .. (m + Len(ls))
                         /\ \A i \in 1..Len(ls) : t[m + i] = ls[i]
    BY DEF Reads
  <1>. DEFINE I == (m + a + 1) .. (m + a + n)
  <1>2. IsFiniteSet(I) /\ Cardinality(I) = n
    <2>. DEFINE x == m + a + 1
                y == m + a + n
    <2>1. x \in Int /\ y \in Int /\ (IF x > y THEN 0 ELSE y - x + 1) = n
      OBVIOUS
    <2>. HIDE DEF x, y
    <2>2. IsFiniteSet(x..y) /\ Cardinality(x..y) = IF x > y THEN 0 ELSE y - x + 1
      BY <2>1, FS_Interval
    <2>. QED  BY <2>1, <2>2 DEF x, y
  <1>3. ASSUME NEW i \in K PROVE i \in I
    <2>1. i \in (m + 1) .. (m + Len(ls)) /\ t[i].is = is
      BY <1>1, <1>3
    <2>2. i - m \in 1..Len(ls) /\ i = m + (i - m)
      BY <2>1
    <2>3. ls[i - m].is = is
      BY <1>1, <2>1, <2>2
    <2>4. i - m \in (a + 1) .. (a + n)
      BY <2>2, <2>3 DEF Within
    <2>. QED  BY <2>1, <2>4
  <1>4. ASSUME Fills(ls, is, a, n)
        PROVE  I \subseteq K
    <2>. SUFFICES ASSUME NEW i \in I PROVE i \in U /\ t[i].is = is
      OBVIOUS
    <2>1. i - m \in (a + 1) .. (a + n) /\ i = m + (i - m) /\ i \in Nat
      OBVIOUS
    <2>2. i - m \in 1..Len(ls) /\ ls[i - m].is = is
      BY <1>4, <2>1 DEF Fills
    <2>3. t[i] = ls[i - m]
      BY <1>1, <2>1, <2>2
    <2>4. i \in (m + 1) .. (m + Len(ls))
      BY <2>1, <2>2
    <2>. QED  BY <1>1, <2>2, <2>3, <2>4
  <1>5. Count(t, name, is) = Cardinality(K)
    BY DEF Count
  <1>. HIDE DEF K, I
  <1>6. K \in SUBSET I
    BY <1>3
  <1>7. IsFiniteSet(K) /\ Cardinality(K) <= Cardinality(I)
    BY <1>2, <1>6, FS_Subset
  <1>8. Cardinality(K) \in Nat
    BY <1>7, FS_CardinalityType
  <1>9. I \subseteq K => K = I
    BY <1>6
  <1>. QED  BY <1>2, <1>4, <1>5, <1>7, <1>8, <1>9

\* The percentages of a table.
LEMMA ReadPercents ==
    ASSUME NEW t, NEW name, NEW ls, Len(ls) \in Nat, Reads(t, name, ls)
    PROVE  Percents(t, name) = PercentsIn(ls)
  <1>. DEFINE U == Under(t, name)
  <1>1. PICK m \in Nat : /\ U = (m + 1) .. (m + Len(ls))
                         /\ \A i \in 1..Len(ls) : t[m + i] = ls[i]
    BY DEF Reads
  <1>. DEFINE A == {j \in U : t[j].is = "row" /\ \E k \in U : k < j}
              B == {j \in 1..Len(ls) : ls[j].is = "row" /\ 1 < j}
  <1>2. Percents(t, name) = {t[i].n : i \in A} /\ PercentsIn(ls) = {ls[i].n : i \in B}
    BY DEF Percents, PercentsIn
  <1>3. ASSUME NEW j \in A PROVE j - m \in B /\ t[j] = ls[j - m]
    <2>1. PICK k \in U : k < j
      BY <1>3
    <2>2. j \in (m + 1) .. (m + Len(ls)) /\ k \in (m + 1) .. (m + Len(ls)) /\ t[j].is = "row"
      BY <1>1, <1>3, <2>1
    <2>3. j - m \in 1..Len(ls) /\ 1 < j - m /\ j = m + (j - m)
      BY <2>1, <2>2
    <2>4. t[j] = ls[j - m]
      BY <1>1, <2>3
    <2>. QED  BY <2>2, <2>3, <2>4
  <1>4. ASSUME NEW j \in B PROVE m + j \in A /\ t[m + j] = ls[j]
    <2>1. m + j \in U /\ m + 1 \in U /\ m + 1 < m + j
      BY <1>1, <1>4
    <2>2. t[m + j] = ls[j] /\ ls[j].is = "row"
      BY <1>1, <1>4
    <2>. QED  BY <2>1, <2>2
  <1>. HIDE DEF A, B
  <1>. QED  BY <1>2, <1>3, <1>4

\* The lines of a kind.
LEMMA ReadKind ==
    ASSUME NEW t, NEW name, NEW ls, Len(ls) \in Nat, Reads(t, name, ls), NEW is
    PROVE  /\ OfKind(t, Under(t, name), is) = OfKind(ls, 1..Len(ls), is)
           /\ NumbersOf(t, Under(t, name), is) = NumbersOf(ls, 1..Len(ls), is)
  <1>. DEFINE U == Under(t, name)
  <1>1. PICK m \in Nat : /\ U = (m + 1) .. (m + Len(ls))
                         /\ \A i \in 1..Len(ls) : t[m + i] = ls[i]
    BY DEF Reads
  <1>. DEFINE A == {j \in U : t[j].is = is}
              B == {j \in 1..Len(ls) : ls[j].is = is}
  <1>2. ASSUME NEW j \in A PROVE j - m \in B /\ t[j] = ls[j - m]
    <2>1. j \in (m + 1) .. (m + Len(ls)) /\ t[j].is = is
      BY <1>1, <1>2
    <2>2. j - m \in 1..Len(ls) /\ j = m + (j - m)
      BY <2>1
    <2>3. t[j] = ls[j - m]
      BY <1>1, <2>2
    <2>. QED  BY <2>1, <2>2, <2>3
  <1>3. ASSUME NEW j \in B PROVE m + j \in A /\ t[m + j] = ls[j]
    <2>1. m + j \in U /\ t[m + j] = ls[j] /\ ls[j].is = is
      BY <1>1, <1>3
    <2>. QED  BY <2>1
  <1>. HIDE DEF A, B
  <1>4. {t[i] : i \in A} = {ls[i] : i \in B}
    BY <1>2, <1>3
  <1>5. {t[i].n : i \in A} = {ls[i].n : i \in B}
    BY <1>2, <1>3
  <1>. QED  BY <1>4, <1>5 DEF A, B, OfKind, NumbersOf

-----------------------------------------------------------------------------
(* The first of a kind in lines put together.                              *)

\* The first of two texts to have the kind is the one read.
LEMMA FirstJoined ==
    ASSUME NEW s \in Seq(LineType), NEW u \in Seq(LineType), NEW is
    PROVE  FirstIn(s \o u, is) = IF FirstIn(s, is) # None THEN FirstIn(s, is) ELSE FirstIn(u, is)
  <1>. DEFINE v == s \o u
  <1>1. /\ v \in Seq(LineType) /\ Len(v) = Len(s) + Len(u)
        /\ \A i \in 1..Len(s) : v[i] = s[i]
        /\ \A i \in 1..Len(u) : v[Len(s) + i] = u[i]
    OBVIOUS
  <1>2. Len(s) \in Nat /\ Len(u) \in Nat
    OBVIOUS
  <1>. HIDE DEF v
  <1>3. 1..Len(v) \in SUBSET Nat
    OBVIOUS
  <1>4. CASE FirstIn(s, is) # None
    <2>1. HasIn(s, is)
      BY <1>4, FirstKnown
    <2>2. PICK i \in 1..Len(s) : /\ s[i].is = is /\ FirstIn(s, is) = s[i].n
                                 /\ \A j \in 1..Len(s) : s[j].is = is => i <= j
      BY <1>2, <2>1, LeastOfKind
    <2>3. i \in 1..Len(v) /\ v[i].is = is /\ v[i].n = s[i].n
      BY <1>1, <1>2, <2>2
    <2>4. ASSUME NEW j \in 1..Len(v), v[j].is = is PROVE i <= j
      <3>1. CASE j \in 1..Len(s)
        BY <1>1, <2>2, <2>4, <3>1
      <3>2. CASE j \notin 1..Len(s)
        BY <1>1, <1>2, <3>2
      <3>. QED  BY <3>1, <3>2
    <2>5. FirstIn(v, is) = v[i].n
      BY <1>3, <2>3, <2>4, FirstOne DEF FirstIn
    <2>. QED  BY <1>4, <2>2, <2>3, <2>5 DEF v
  <1>5. CASE FirstIn(s, is) = None
    <2>1. \A j \in 1..Len(s) : v[j].is # is
      BY <1>1, <1>5, FirstKnown DEF HasIn, HasLine
    <2>2. CASE HasIn(u, is)
      <3>1. PICK i \in 1..Len(u) : /\ u[i].is = is /\ FirstIn(u, is) = u[i].n
                                   /\ \A j \in 1..Len(u) : u[j].is = is => i <= j
        BY <1>2, <2>2, LeastOfKind
      <3>2. Len(s) + i \in 1..Len(v) /\ v[Len(s) + i].is = is /\ v[Len(s) + i].n = u[i].n
        BY <1>1, <1>2, <3>1
      <3>3. ASSUME NEW j \in 1..Len(v), v[j].is = is PROVE Len(s) + i <= j
        <4>1. j \notin 1..Len(s)
          BY <2>1, <3>3
        <4>2. j - Len(s) \in 1..Len(u) /\ j = Len(s) + (j - Len(s))
          BY <1>1, <1>2, <4>1
        <4>3. u[j - Len(s)].is = is
          BY <1>1, <3>3, <4>2
        <4>4. i <= j - Len(s)
          BY <3>1, <4>2, <4>3
        <4>. QED  BY <1>2, <4>2, <4>4
      <3>. DEFINE k == Len(s) + i
      <3>4. k \in 1..Len(v) /\ v[k].is = is /\ \A j \in 1..Len(v) : v[j].is = is => k <= j
        BY <3>2, <3>3
      <3>. HIDE DEF k
      <3>5. FirstIn(v, is) = v[k].n
        BY <1>3, <3>4, FirstOne DEF FirstIn
      <3>. QED  BY <1>5, <3>1, <3>2, <3>5 DEF v, k
    <2>3. CASE ~HasIn(u, is)
      <3>1. FirstIn(u, is) = None
        BY <2>3, FirstKnown
      <3>2. ASSUME NEW j \in 1..Len(v) PROVE v[j].is # is
        <4>1. CASE j \in 1..Len(s)
          BY <2>1, <4>1
        <4>2. CASE j \notin 1..Len(s)
          <5>1. j - Len(s) \in 1..Len(u) /\ j = Len(s) + (j - Len(s))
            BY <1>1, <1>2, <4>2
          <5>2. u[j - Len(s)].is # is
            BY <2>3, <5>1 DEF HasIn, HasLine
          <5>. QED  BY <1>1, <5>1, <5>2
        <4>. QED  BY <4>1, <4>2
      <3>3. FirstIn(v, is) = None
        BY <3>2, FirstNone DEF FirstIn
      <3>. QED  BY <1>5, <3>1, <3>3 DEF v
    <2>. QED  BY <2>2, <2>3
  <1>. QED  BY <1>4, <1>5

\* Reading a text of one line.
LEMMA FirstAlone ==
    ASSUME NEW l, NEW is
    PROVE  FirstIn(<<l>>, is) = IF l.is = is THEN l.n ELSE None
  <1>. DEFINE v == <<l>>
  <1>1. Len(v) = 1 /\ v[1] = l
    OBVIOUS
  <1>. HIDE DEF v
  <1>2. CASE l.is = is
    <2>1. 1 \in 1..Len(v) /\ 1..Len(v) \in SUBSET Nat /\ \A j \in 1..Len(v) : 1 <= j
      BY <1>1
    <2>2. First(v, 1..Len(v), is) = v[1].n
      BY <1>1, <1>2, <2>1, FirstOne
    <2>. QED  BY <1>1, <1>2, <2>2 DEF FirstIn, v
  <1>3. CASE l.is # is
    <2>1. \A j \in 1..Len(v) : v[j].is # is
      BY <1>1, <1>3
    <2>2. First(v, 1..Len(v), is) = None
      BY <2>1, FirstNone
    <2>. QED  BY <1>3, <2>2 DEF FirstIn, v
  <1>. QED  BY <1>2, <1>3

\* Reading an empty text.
LEMMA FirstOfNone ==
    ASSUME NEW is
    PROVE  FirstIn(<<>>, is) = None
  BY FirstNone DEF FirstIn

\* Reading what a source said gives what it said.
LEMMA FirstSaid ==
    ASSUME NEW is, NEW n, NEW x
    PROVE  FirstIn(Said(is, n), x) = IF x = is THEN n ELSE None
  <1>1. CASE n = None
    BY <1>1, FirstOfNone DEF Said
  <1>2. CASE n # None
    <2>1. FirstIn(<<Line(is, n)>>, x) = IF is = x THEN n ELSE None
      BY FirstAlone DEF Line
    <2>. QED  BY <1>2, <2>1 DEF Said
  <1>. QED  BY <1>1, <1>2

-----------------------------------------------------------------------------
(* Lines cut short.                                                        *)

\* A number whose last digits are missing is no greater.
LEMMA ShortenedLess ==
    ASSUME NEW n \in Nat, NEW k \in Shortened(n)
    PROVE  k \in Nat /\ k <= n
  <1>1. PICK b \in Tens : k = n \div b
    BY DEF Shortened
  <1>2. b \in Nat \ {0}
    BY TensAssumption
  <1>. DEFINE q == n \div b
  <1>3. q \in Nat /\ b * q <= n
    BY <1>2
  <1>. HIDE DEF q
  <1>4. q <= b * q
    BY <1>2, <1>3
  <1>5. k = q
    BY <1>1 DEF q
  <1>. QED  BY <1>2, <1>3, <1>4, <1>5

\* A number with decimals that is cut short does not grow.
LEMMA ShortenedCentsLess ==
    ASSUME NEW n \in Nat, NEW k \in ShortenedCents(n)
    PROVE  k \in Nat /\ k <= n
  <1>1. CASE k = n - (n % 10)
    BY <1>1
  <1>2. CASE k = n - (n % 100)
    BY <1>2
  <1>3. CASE k \in {100 * j : j \in Shortened(n \div 100)}
    <2>1. PICK j \in Shortened(n \div 100) : k = 100 * j
      BY <1>3
    <2>2. n \div 100 \in Nat /\ 100 * (n \div 100) <= n
      OBVIOUS
    <2>3. j \in Nat /\ j <= n \div 100
      BY <2>2, ShortenedLess
    <2>. QED  BY <2>1, <2>2, <2>3
  <1>. QED  BY <1>1, <1>2, <1>3 DEF ShortenedCents

\* What a line cut short may be.
Resized == Counts \cup Cents \cup NameKinds \cup {"leap", "uname"}
Changed == Resized \cup {"piece", "blocks", "has not"}

\* What a line cut short can look like.
LEMMA CutKinds ==
    ASSUME NEW l \in Printed, NEW x \in CutLines(l)
    PROVE  \/ x = Piece
           \/ x = l /\ l.is \notin {"yes", "no"}
           \/ l.is \in Resized /\ \E k \in Nat : x = Line(l.is, k) /\ (l.is \in Cents => k <= l.n)
           \/ l.is = "row" /\ x = Blocks
           \/ l.is = "has" /\ x = Line("has not", l.n)
  <1>. DEFINE Sized(y) == /\ l.is \in Resized
                          /\ \E k \in Nat : y = Line(l.is, k) /\ (l.is \in Cents => k <= l.n)
  <1>1. l.is # "===" /\ l.n \in Nat
    BY LineNumbered DEF Printed
  <1>. DEFINE Others == NameKinds \cup {"leap", "has", "has not", "uname", "yes", "no"}
  <1>2. CASE l.is \in Counts
    <2>1. /\ l.is \notin Cents /\ l.is # "row" /\ l.is \notin Begun \cup Texts \cup {"nic"}
          /\ l.is \notin Others
      BY <1>2 DEF Counts, Cents, Begun, Texts, NameKinds
    <2>2. x = Piece \/ x = l \/ \E k \in Shortened(l.n) : x = Line(l.is, k)
      BY <1>1, <1>2, <2>1 DEF CutLines
    <2>3. l.is \in Resized
      BY <1>2 DEF Resized
    <2>4. \A k \in Shortened(l.n) : k \in Nat
      BY <1>1, ShortenedLess
    <2>. QED  BY <2>1, <2>2, <2>3, <2>4
  <1>3. CASE l.is \in Cents
    <2>1. /\ l.is \notin Counts /\ l.is # "row" /\ l.is \notin Begun \cup Texts \cup {"nic"}
          /\ l.is \notin Others
      BY <1>3 DEF Counts, Cents, Begun, Texts, NameKinds
    <2>2. x = Piece \/ x = l \/ \E k \in ShortenedCents(l.n) : x = Line(l.is, k)
      BY <1>1, <1>3, <2>1 DEF CutLines
    <2>3. l.is \in Resized
      BY <1>3 DEF Resized
    <2>4. \A k \in ShortenedCents(l.n) : k \in Nat /\ k <= l.n
      BY <1>1, ShortenedCentsLess
    <2>. QED  BY <2>1, <2>2, <2>3, <2>4
  <1>4. CASE l.is \notin Counts \cup Cents
    <2>1. l.is \notin Counts /\ l.is \notin Cents
      BY <1>4
    <2>2. CASE l.is = "row"
      BY <1>1, <2>1, <2>2 DEF CutLines, Begun, Texts, NameKinds
    <2>3. CASE l.is \in Begun \cup Texts \cup {"nic", "has not"}
      <3>1. l.is # "row" /\ l.is \notin Others \ {"has not"}
        BY <2>3 DEF Begun, Texts, NameKinds
      <3>2. CASE l.is = "has not"
        BY <1>1, <2>1, <3>2 DEF CutLines, Begun, Texts, NameKinds
      <3>3. CASE l.is # "has not"
        <4>1. l.is \in Begun \cup Texts \cup {"nic"}
          BY <2>3, <3>3
        <4>2. CutLines(l) = {Piece} \cup {l}
          BY <2>1, <3>1, <3>3, <4>1 DEF CutLines
        <4>. QED  BY <1>1, <3>1, <4>2
      <3>. QED  BY <3>2, <3>3
    <2>4. CASE l.is = "leap"
      <3>1. x = Piece \/ x = l \/ x = Line("leap", 1)
        BY <1>1, <2>1, <2>4 DEF CutLines, Begun, Texts, NameKinds
      <3>2. l.is \in Resized
        BY <2>4 DEF Resized
      <3>. QED  BY <2>1, <2>4, <3>1, <3>2
    <2>5. CASE l.is = "has"
      BY <1>1, <2>1, <2>5 DEF CutLines, Begun, Texts, NameKinds
    <2>6. CASE l.is = "uname"
      <3>1. x = Piece \/ \E k \in 1..l.n : x = Line("uname", k)
        BY <1>1, <2>1, <2>6 DEF CutLines, Begun, Texts, NameKinds
      <3>2. l.is \in Resized /\ \A k \in 1..l.n : k \in Nat
        BY <2>6 DEF Resized
      <3>. QED  BY <2>1, <2>6, <3>1, <3>2
    <2>7. CASE l.is \in NameKinds
      <3>1. x = Piece \/ \E k \in 0..l.n : x = Line(l.is, k)
        BY <1>1, <2>1, <2>7 DEF CutLines, Begun, Texts, NameKinds
      <3>2. l.is \in Resized /\ \A k \in 0..l.n : k \in Nat
        BY <2>7 DEF Resized
      <3>. QED  BY <2>1, <2>7, <3>1, <3>2
    <2>8. CASE l.is \notin Begun \cup Texts \cup NameKinds
                            \cup {"row", "nic", "has not", "leap", "has", "uname"}
      BY <1>1, <2>1, <2>8 DEF CutLines
    <2>. QED  BY <2>2, <2>3, <2>4, <2>5, <2>6, <2>7, <2>8
  <1>. QED  BY <1>2, <1>3, <1>4

\* A line cut short is a line that may be printed.
LEMMA CutTyped ==
    ASSUME NEW l \in Printed, NEW x \in CutLines(l)
    PROVE  x \in Printed
  <1>1. Resized \subseteq Words /\ "blocks" \in Words /\ "has not" \in Words
    BY DEF Resized, Words
  <1>2. CASE x = Piece
    BY <1>2, PieceTyped
  <1>3. CASE x = l
    BY <1>3
  <1>4. ASSUME l.is \in Resized, NEW k \in Nat, x = Line(l.is, k) PROVE x \in Printed
    BY <1>1, <1>4, LineTyped
  <1>5. CASE x = Blocks
    <2>1. 1000 \in Nat /\ "blocks" \in Words
      BY DEF Words
    <2>2. Line("blocks", 1000) \in Printed
      BY <2>1, LineTyped
    <2>. QED  BY <1>5, <2>2 DEF Blocks
  <1>6. CASE x = Line("has not", l.n)
    <2>1. l.n \in Nat
      BY LineNumbered DEF Printed
    <2>. QED  BY <1>1, <1>6, <2>1, LineTyped
  <1>. QED  BY <1>2, <1>3, <1>4, <1>5, <1>6, CutKinds

\* Lines that were cut off after, or within, line m.
Cut(L, m, ls) ==
    /\ ls \in Seq(Printed) /\ Len(ls) <= Len(L)
    /\ \A i \in 1..Len(ls) :
         \/ ls[i] = L[i]
         \/ i = m /\ i = Len(ls) /\ ls[i] \in CutLines(L[i])

\* A section cut before its first line has none.
LEMMA CutBefore ==
    ASSUME NEW L \in Seq(Printed), NEW m
    PROVE  Cut(L, m, <<>>)
  BY DEF Cut

\* A section cut within a line has the lines before it and what is left of that one.
LEMMA CutWithin ==
    ASSUME NEW L \in Seq(Printed), NEW m \in 1..Len(L),
           NEW rest \in {<<>>} \cup {<<l>> : l \in CutLines(L[m])}
    PROVE  Cut(L, m, SubSeq(L, 1, m - 1) \o rest)
  <1>. DEFINE s == SubSeq(L, 1, m - 1)
  <1>1. Len(L) \in Nat /\ m \in Nat /\ L[m] \in Printed
    OBVIOUS
  <1>2. s \in Seq(Printed) /\ Len(s) = m - 1 /\ \A i \in 1..(m - 1) : s[i] = L[i]
    BY <1>1
  <1>. HIDE DEF s
  <1>3. CASE rest = <<>>
    <2>1. s \o rest = s
      BY <1>2, <1>3
    <2>2. Len(s) <= Len(L) /\ \A i \in 1..Len(s) : s[i] = L[i]
      BY <1>1, <1>2
    <2>3. s \in Seq(Printed)
      BY <1>2
    <2>4. Cut(L, m, s)
      BY <2>2, <2>3 DEF Cut
    <2>. QED  BY <2>1, <2>4 DEF s
  <1>4. ASSUME NEW l \in CutLines(L[m]), rest = <<l>>
        PROVE  Cut(L, m, s \o rest)
    <2>1. l \in Printed
      BY <1>1, CutTyped
    <2>. DEFINE r == <<l>>
    <2>2. r \in Seq(Printed) /\ Len(r) = 1 /\ r[1] = l
      BY <2>1
    <2>3. s \in Seq(Printed)
      BY <1>2
    <2>4. r \in Seq(Printed)
      BY <2>2
    <2>. DEFINE v == s \o r
    <2>. HIDE DEF r
    <2>5. /\ v \in Seq(Printed) /\ Len(v) = Len(s) + Len(r)
          /\ \A i \in 1..Len(s) : v[i] = s[i]
          /\ \A i \in 1..Len(r) : v[Len(s) + i] = r[i]
      BY <2>3, <2>4
    <2>. HIDE DEF v
    <2>6. Len(v) \in Nat
      BY <2>5
    <2>7. Len(v) = m /\ v[m] = l
      <3>1. 1 \in 1..Len(r) /\ Len(s) + 1 = m
        BY <1>1, <1>2, <2>2
      <3>. QED  BY <1>1, <1>2, <2>2, <2>5, <3>1
    <2>8. ASSUME NEW i \in 1..Len(v)
          PROVE  v[i] = L[i] \/ (i = m /\ i = Len(v) /\ v[i] \in CutLines(L[i]))
      <3>1. CASE i = m
        BY <2>7, <3>1
      <3>2. CASE i # m
        <4>1. i \in 1..(m - 1) /\ i \in 1..Len(s)
          BY <1>1, <1>2, <2>7, <3>2
        <4>2. v[i] = s[i]
          BY <2>5, <4>1
        <4>3. s[i] = L[i]
          BY <1>2, <4>1
        <4>. QED  BY <4>2, <4>3
      <3>. QED  BY <3>1, <3>2
    <2>9. Len(v) <= Len(L)
      BY <1>1, <2>7
    <2>10. Cut(L, m, v)
      BY <2>5, <2>8, <2>9 DEF Cut
    <2>. QED  BY <1>4, <2>10 DEF v, r
  <1>. QED  BY <1>3, <1>4 DEF s

-----------------------------------------------------------------------------
(* The text.                                                               *)

\* The text of the first d sections of a script.
Laid(t, s, d) ==
    /\ t \in Seq(LineType)
    /\ \A i \in 1..Len(t) : t[i].is = "===" => \E k \in 1..d : t[i].name = s[k].name
    /\ \A k \in 1..Len(s) : Reads(t, s[k].name, IF k <= d THEN s[k].lines ELSE <<>>)

\* A section that is not there reads as no lines.
LEMMA ReadsNothing ==
    ASSUME NEW t, Len(t) \in Nat, NEW name
    PROVE  Reads(t, name, <<>>) <=> Under(t, name) = {}
  <1>1. ASSUME Reads(t, name, <<>>) PROVE Under(t, name) = {}
    <2>1. PICK m \in Nat : Under(t, name) = (m + 1) .. (m + 0)
      BY <1>1 DEF Reads
    <2>. QED  BY <2>1
  <1>2. ASSUME Under(t, name) = {} PROVE Reads(t, name, <<>>)
    <2>1. 0 \in Nat /\ 0 + 0 <= Len(t) /\ Under(t, name) = (0 + 1) .. (0 + 0)
      BY <1>2
    <2>. QED  BY <2>1 DEF Reads
  <1>. QED  BY <1>1, <1>2

\* The empty text lays out no section.
LEMMA LaidNothing ==
    ASSUME NEW s
    PROVE  Laid(<<>>, s, 0)
  <1>. DEFINE t == <<>>
  <1>1. t \in Seq(LineType) /\ Len(t) = 0 /\ DOMAIN t = {}
    OBVIOUS
  <1>. HIDE DEF t
  <1>2. \A x : Under(t, x) = {}
    BY <1>1 DEF Under
  <1>3. ASSUME NEW k \in 1..Len(s) PROVE Reads(t, s[k].name, IF k <= 0 THEN s[k].lines ELSE <<>>)
    <2>1. ~(k <= 0)
      OBVIOUS
    <2>. QED  BY <1>1, <1>2, <2>1, ReadsNothing
  <1>4. Laid(t, s, 0)
    BY <1>1, <1>3 DEF Laid
  <1>. QED  BY <1>4 DEF t

\* A longer text reads the same where the sections are the same.
LEMMA ReadsLonger ==
    ASSUME NEW t, NEW u, Len(t) \in Nat, Len(u) \in Nat, Len(t) <= Len(u),
           \A i \in 1..Len(t) : u[i] = t[i],
           NEW name, Under(u, name) = Under(t, name),
           NEW ls, Len(ls) \in Nat, Reads(t, name, ls)
    PROVE  Reads(u, name, ls)
  <1>1. PICK m \in Nat : /\ m + Len(ls) <= Len(t)
                         /\ Under(t, name) = (m + 1) .. (m + Len(ls))
                         /\ \A i \in 1..Len(ls) : t[m + i] = ls[i]
    BY DEF Reads
  <1>2. ASSUME NEW i \in 1..Len(ls) PROVE u[m + i] = ls[i]
    <2>1. m + i \in 1..Len(t)
      BY <1>1
    <2>. QED  BY <1>1, <2>1
  <1>3. m + Len(ls) <= Len(u)
    BY <1>1
  <1>. QED  BY <1>1, <1>2, <1>3 DEF Reads

\* One section more.
LEMMA LaidNext ==
    ASSUME NEW s, WellMade(s), NEW d \in 0..(Len(s) - 1), NEW t, Laid(t, s, d),
           NEW ls \in Seq(Printed), NEW u, u = Added(t, s[d + 1].name, ls)
    PROVE  /\ u \in Seq(LineType)
           /\ \A i \in 1..Len(u) : u[i].is = "===" => \E k \in 1..(d + 1) : u[i].name = s[k].name
           /\ Reads(u, s[d + 1].name, ls)
           /\ \A k \in 1..d : Reads(u, s[k].name, s[k].lines)
           /\ \A k \in (d + 2)..Len(s) : Reads(u, s[k].name, <<>>)
  <1>. DEFINE name == s[d + 1].name
  <1>1. Len(s) \in Nat /\ d \in Nat /\ d + 1 \in 1..Len(s) /\ name \in Names
    BY DEF WellMade
  <1>2. \A k \in 1..Len(s) : s[k].name = name => k = d + 1
    BY <1>1 DEF WellMade
  <1>3. /\ t \in Seq(LineType)
        /\ \A i \in 1..Len(t) : t[i].is = "===" => \E k \in 1..d : t[i].name = s[k].name
        /\ \A k \in 1..Len(s) : Reads(t, s[k].name, IF k <= d THEN s[k].lines ELSE <<>>)
    BY DEF Laid
  <1>4. Len(t) \in Nat /\ DOMAIN t = 1..Len(t)
    BY <1>3
  <1>5. Len(ls) \in Nat
    OBVIOUS
  <1>6. \A i \in DOMAIN t : t[i].is = "===" => t[i].name # name
    <2>. SUFFICES ASSUME NEW i \in 1..Len(t), t[i].is = "===" PROVE t[i].name # name
      BY <1>4
    <2>1. PICK k \in 1..d : t[i].name = s[k].name
      BY <1>3
    <2>. QED  BY <1>1, <1>2, <2>1
  <1>. HIDE DEF name
  <1>7. u = Added(t, name, ls)
    BY DEF name
  <1>8. /\ \A x : x # name => Under(u, x) = Under(t, x)
        /\ Under(u, name) = (Len(t) + 2) .. (Len(t) + 1 + Len(ls))
    <2>1. t \in Seq(LineType) /\ name \in Names
      BY <1>1, <1>3
    <2>2. \A x : x # name => Under(u, x) = Under(t, x)
      BY <1>7, <2>1, Sectioned
    <2>3. (\A i \in DOMAIN t : t[i].is = "===" => t[i].name # name) =>
            Under(u, name) = (Len(t) + 2) .. (Len(t) + 1 + Len(ls))
      BY <1>7, <2>1, Sectioned
    <2>4. Under(u, name) = (Len(t) + 2) .. (Len(t) + 1 + Len(ls))
      BY <1>6, <2>3, Zenon
    <2>. QED  BY <2>2, <2>4
  <1>9. /\ u \in Seq(LineType) /\ Len(u) = Len(t) + 1 + Len(ls)
        /\ \A i \in 1..Len(t) : u[i] = t[i]
        /\ u[Len(t) + 1] = Mark(name)
        /\ \A i \in 1..Len(ls) : u[Len(t) + 1 + i] = ls[i]
    <2>1. Mark(name) \in LineType
      BY <1>1 DEF Mark, LineType
    <2>2. ls \in Seq(LineType)
      BY DEF Printed
    <2>. DEFINE x == Mark(name)
    <2>3. x \in LineType /\ u = t \o (<<x>> \o ls)
      BY <1>7, <2>1 DEF Added
    <2>. HIDE DEF x
    <2>4. /\ u \in Seq(LineType) /\ Len(u) = Len(t) + 1 + Len(ls)
          /\ \A i \in 1..Len(t) : u[i] = t[i]
          /\ u[Len(t) + 1] = x
          /\ \A i \in 1..Len(ls) : u[Len(t) + 1 + i] = ls[i]
      BY <1>3, <2>2, <2>3, Between
    <2>. QED  BY <2>4 DEF x
  <1>10. ASSUME NEW i \in 1..Len(u), u[i].is = "==="
         PROVE  \E k \in 1..(d + 1) : u[i].name = s[k].name
    <2>1. CASE i \in 1..Len(t)
      <3>1. PICK k \in 1..d : t[i].name = s[k].name
        BY <1>3, <1>9, <1>10, <2>1
      <3>2. k \in 1..(d + 1) /\ u[i] = t[i]
        BY <1>1, <1>9, <2>1
      <3>. QED  BY <3>1, <3>2
    <2>2. CASE i = Len(t) + 1
      <3>1. u[i].name = s[d + 1].name /\ d + 1 \in 1..(d + 1)
        BY <1>1, <1>9, <2>2 DEF Mark, name
      <3>. QED  BY <3>1
    <2>3. CASE i \notin 1..Len(t) /\ i # Len(t) + 1
      <3>. DEFINE j == i - Len(t) - 1
      <3>1. j \in 1..Len(ls) /\ Len(t) + 1 + j = i
        BY <1>4, <1>9, <1>5, <2>3
      <3>. HIDE DEF j
      <3>2. u[i] = ls[j] /\ ls[j] \in Printed
        BY <1>9, <3>1
      <3>. QED  BY <1>10, <3>2 DEF Printed
    <2>. QED  BY <2>1, <2>2, <2>3
  <1>11. Reads(u, name, ls)
    <2>. DEFINE m == Len(t) + 1
    <2>1. m \in Nat /\ m + Len(ls) <= Len(u)
      BY <1>4, <1>9, <1>5
    <2>2. Under(u, name) = (m + 1) .. (m + Len(ls))
      <3>1. Len(t) + 2 = Len(t) + 1 + 1
        BY <1>4
      <3>. QED  BY <1>8, <3>1
    <2>3. \A i \in 1..Len(ls) : u[m + i] = ls[i]
      BY <1>9
    <2>. HIDE DEF m
    <2>. QED  BY <2>1, <2>2, <2>3 DEF Reads
  <1>12. ASSUME NEW k \in 1..Len(s), k # d + 1
         PROVE  Reads(u, s[k].name, IF k <= d THEN s[k].lines ELSE <<>>)
    <2>. DEFINE x == s[k].name
                old == IF k <= d THEN s[k].lines ELSE <<>>
    <2>1. Under(u, x) = Under(t, x)
      BY <1>2, <1>8, <1>12
    <2>2. Reads(t, x, old)
      BY <1>3
    <2>3. s[k].lines \in Seq(Printed)
      BY DEF WellMade
    <2>4. old \in Seq(Printed)
      BY <2>3
    <2>. HIDE DEF x, old
    <2>5. Len(old) \in Nat
      BY <2>4
    <2>6. Len(u) \in Nat /\ Len(t) <= Len(u)
      BY <1>4, <1>9, <1>5
    <2>7. Reads(u, x, old)
      BY <1>4, <1>9, <2>1, <2>2, <2>5, <2>6, ReadsLonger
    <2>. QED  BY <2>7 DEF x, old
  <1>13. ASSUME NEW k \in 1..d PROVE Reads(u, s[k].name, s[k].lines)
    <2>1. k \in 1..Len(s) /\ k # d + 1 /\ k <= d
      BY <1>1
    <2>. QED  BY <1>12, <2>1
  <1>14. ASSUME NEW k \in (d + 2)..Len(s) PROVE Reads(u, s[k].name, <<>>)
    <2>1. k \in 1..Len(s) /\ k # d + 1 /\ ~(k <= d)
      BY <1>1
    <2>. QED  BY <1>12, <2>1
  <1>. QED  BY <1>9, <1>10, <1>11, <1>13, <1>14 DEF name

\* A section appended to a text laid out section by section leaves it so.
LEMMA LaidMore ==
    ASSUME NEW s, WellMade(s), NEW d \in 0..(Len(s) - 1), NEW t, Laid(t, s, d),
           NEW ls, ls = s[d + 1].lines, NEW u, u = Added(t, s[d + 1].name, ls)
    PROVE  Laid(u, s, d + 1)
  <1>1. Len(s) \in Nat /\ d \in Nat /\ d + 1 \in 1..Len(s)
    BY DEF WellMade
  <1>2. ls \in Seq(Printed)
    BY <1>1 DEF WellMade
  <1>3. /\ u \in Seq(LineType)
        /\ \A i \in 1..Len(u) : u[i].is = "===" => \E k \in 1..(d + 1) : u[i].name = s[k].name
        /\ Reads(u, s[d + 1].name, ls)
        /\ \A k \in 1..d : Reads(u, s[k].name, s[k].lines)
        /\ \A k \in (d + 2)..Len(s) : Reads(u, s[k].name, <<>>)
    BY <1>2, LaidNext
  <1>4. ASSUME NEW k \in 1..Len(s)
        PROVE  Reads(u, s[k].name, IF k <= d + 1 THEN s[k].lines ELSE <<>>)
    <2>1. CASE k \in 1..d
      <3>1. k <= d + 1
        BY <1>1, <2>1
      <3>. QED  BY <1>3, <2>1, <3>1
    <2>2. CASE k = d + 1
      BY <1>1, <1>3, <2>2
    <2>3. CASE k > d + 1
      <3>1. k \in (d + 2)..Len(s) /\ ~(k <= d + 1)
        BY <1>1, <2>3
      <3>. QED  BY <1>3, <3>1
    <2>. QED  BY <1>1, <2>1, <2>2, <2>3
  <1>. QED  BY <1>3, <1>4 DEF Laid

\* What may be left of section k when the text was cut off at c.
Left(L, k, c, ls) ==
    \/ ls = L /\ (c.section = 0 \/ k < c.section)
    \/ k + 1 = c.section /\ c.line = 1 /\ ls = L \o <<Piece>>
    \/ k = c.section /\ Cut(L, c.line - 1, ls)
    \/ c.section # 0 /\ c.section < k /\ ls = <<>>
\* What may be read of a text that was cut off at c.
AllLeft(t, s, c) ==
    \A k \in 1..Len(s) :
        \E ls \in Seq(LineType) : Reads(t, s[k].name, ls) /\ Left(s[k].lines, k, c, ls)

\* The lines a section of a well-made script prints.
LEMMA LinesOfScript ==
    ASSUME NEW s, WellMade(s), NEW k \in 1..Len(s)
    PROVE  /\ s[k].lines \in Seq(Printed) /\ s[k].lines \in Seq(LineType)
           /\ s[k].lines \o <<Piece>> \in Seq(Printed)
  <1>1. s[k].lines \in Seq(Printed)
    BY DEF WellMade
  <1>2. Printed \subseteq LineType
    BY DEF Printed
  <1>3. s[k].lines \in Seq(LineType)
    BY <1>1, <1>2, Widened
  <1>. DEFINE L == s[k].lines
              p == <<Piece>>
  <1>4. L \in Seq(Printed) /\ p \in Seq(Printed)
    BY <1>1, PieceTyped
  <1>. HIDE DEF L, p
  <1>5. L \o p \in Seq(Printed)
    BY <1>4
  <1>. QED  BY <1>1, <1>3, <1>5 DEF L, p

\* All of it.
LEMMA LeftWhole ==
    ASSUME NEW s, WellMade(s), NEW t, Laid(t, s, Len(s))
    PROVE  AllLeft(t, s, Whole)
  <1>. SUFFICES ASSUME NEW k \in 1..Len(s)
                PROVE  /\ s[k].lines \in Seq(LineType)
                       /\ Reads(t, s[k].name, s[k].lines) /\ Left(s[k].lines, k, Whole, s[k].lines)
    BY DEF AllLeft
  <1>1. s[k].lines \in Seq(LineType)
    BY LinesOfScript
  <1>2. k <= Len(s)
    BY DEF WellMade
  <1>3. Reads(t, s[k].name, s[k].lines)
    BY <1>2 DEF Laid
  <1>4. Left(s[k].lines, k, Whole, s[k].lines)
    BY DEF Left, Whole
  <1>. QED  BY <1>1, <1>3, <1>4

\* The text ends within section d + 1, of which ls is left.
LEMMA LeftCut ==
    ASSUME NEW s, WellMade(s), NEW d \in 0..(Len(s) - 1), NEW t, Laid(t, s, d),
           NEW n \in Nat, NEW ls, Cut(s[d + 1].lines, n - 1, ls),
           NEW u, u = Added(t, s[d + 1].name, ls)
    PROVE  u \in Seq(LineType) /\ AllLeft(u, s, [section |-> d + 1, line |-> n])
  <1>. DEFINE c == [section |-> d + 1, line |-> n]
  <1>1. Len(s) \in Nat /\ d \in Nat /\ d + 1 \in 1..Len(s)
    BY DEF WellMade
  <1>2. ls \in Seq(Printed)
    BY DEF Cut
  <1>3. /\ u \in Seq(LineType)
        /\ Reads(u, s[d + 1].name, ls)
        /\ \A k \in 1..d : Reads(u, s[k].name, s[k].lines)
        /\ \A k \in (d + 2)..Len(s) : Reads(u, s[k].name, <<>>)
    BY <1>2, LaidNext
  <1>4. c.section = d + 1 /\ c.line = n /\ c.section # 0
    BY <1>1
  <1>. HIDE DEF c
  <1>5. ASSUME NEW k \in 1..Len(s)
        PROVE  \E r \in Seq(LineType) : Reads(u, s[k].name, r) /\ Left(s[k].lines, k, c, r)
    <2>1. CASE k \in 1..d
      <3>1. Left(s[k].lines, k, c, s[k].lines)
        <4>1. k < c.section
          BY <1>1, <1>4, <2>1
        <4>. QED  BY <4>1 DEF Left
      <3>2. s[k].lines \in Seq(LineType)
        BY LinesOfScript
      <3>3. Reads(u, s[k].name, s[k].lines)
        BY <1>3, <2>1
      <3>. QED  BY <3>1, <3>2, <3>3
    <2>2. CASE k = d + 1
      <3>1. Left(s[k].lines, k, c, ls)
        BY <1>4, <2>2 DEF Left
      <3>2. ls \in Seq(LineType)
        <4>1. Printed \subseteq LineType
          BY DEF Printed
        <4>. QED  BY <1>2, <4>1, Widened
      <3>. QED  BY <1>3, <2>2, <3>1, <3>2
    <2>3. CASE k > d + 1
      <3>1. k \in (d + 2)..Len(s) /\ c.section < k
        BY <1>1, <1>4, <2>3
      <3>2. Left(s[k].lines, k, c, <<>>)
        BY <1>4, <3>1 DEF Left
      <3>3. <<>> \in Seq(LineType)
        OBVIOUS
      <3>4. Reads(u, s[k].name, <<>>)
        BY <1>3, <3>1
      <3>. QED  BY <3>2, <3>3, <3>4
    <2>. QED  BY <1>1, <2>1, <2>2, <2>3
  <1>6. AllLeft(u, s, c)
    BY <1>5 DEF AllLeft
  <1>. QED  BY <1>3, <1>6 DEF c

\* The text ends after section d.
LEMMA LeftAfter ==
    ASSUME NEW s, WellMade(s), NEW d \in 0..(Len(s) - 1), NEW t, Laid(t, s, d)
    PROVE  AllLeft(t, s, [section |-> d + 1, line |-> 1])
  <1>. DEFINE c == [section |-> d + 1, line |-> 1]
  <1>1. Len(s) \in Nat /\ d \in Nat
    BY DEF WellMade
  <1>2. c.section = d + 1 /\ c.line = 1 /\ c.section # 0
    BY <1>1
  <1>. HIDE DEF c
  <1>3. ASSUME NEW k \in 1..Len(s)
        PROVE  \E r \in Seq(LineType) : Reads(t, s[k].name, r) /\ Left(s[k].lines, k, c, r)
    <2>1. CASE k \in 1..d
      <3>1. Left(s[k].lines, k, c, s[k].lines)
        <4>1. k < c.section
          BY <1>1, <1>2, <2>1
        <4>. QED  BY <4>1 DEF Left
      <3>2. s[k].lines \in Seq(LineType)
        BY LinesOfScript
      <3>3. k <= d
        BY <1>1, <2>1
      <3>4. Reads(t, s[k].name, s[k].lines)
        BY <3>3 DEF Laid
      <3>. QED  BY <3>1, <3>2, <3>4
    <2>2. CASE k > d
      <3>1. ~(k <= d)
        BY <1>1, <2>2
      <3>2. Reads(t, s[k].name, <<>>)
        BY <3>1 DEF Laid
      <3>3. Left(s[k].lines, k, c, <<>>)
        <4>1. CASE k = d + 1
          <5>1. Cut(s[k].lines, c.line - 1, <<>>)
            BY LinesOfScript, CutBefore
          <5>. QED  BY <1>2, <4>1, <5>1 DEF Left
        <4>2. CASE k # d + 1
          <5>1. c.section < k
            BY <1>1, <1>2, <2>2, <4>2
          <5>. QED  BY <1>2, <5>1 DEF Left
        <4>. QED  BY <4>1, <4>2
      <3>4. <<>> \in Seq(LineType)
        OBVIOUS
      <3>. QED  BY <3>2, <3>3, <3>4
    <2>. QED  BY <1>1, <2>1, <2>2
  <1>. QED  BY <1>3 DEF AllLeft, c

\* A piece of the marker of section d + 1 is taken for a line of section d.
LEMMA LeftPiece ==
    ASSUME NEW s, WellMade(s), NEW d \in 1..(Len(s) - 1), NEW t, Laid(t, s, d - 1),
           NEW u, u = Added(t, s[d].name, s[d].lines \o <<Piece>>)
    PROVE  u \in Seq(LineType) /\ AllLeft(u, s, [section |-> d + 1, line |-> 1])
  <1>. DEFINE c == [section |-> d + 1, line |-> 1]
              e == d - 1
              ls == s[d].lines \o <<Piece>>
  <1>1. Len(s) \in Nat /\ d \in Nat /\ e \in 0..(Len(s) - 1) /\ e + 1 = d /\ d \in 1..Len(s)
        /\ e + 2 = d + 1
    BY DEF WellMade
  <1>2. ls \in Seq(Printed)
    BY <1>1, LinesOfScript
  <1>3. c.section = d + 1 /\ c.line = 1 /\ c.section # 0
    BY <1>1
  <1>4. Laid(t, s, e) /\ u = Added(t, s[e + 1].name, ls)
    BY <1>1
  <1>5. ls = s[d].lines \o <<Piece>>
    OBVIOUS
  <1>. HIDE DEF c, e, ls
  <1>6. /\ u \in Seq(LineType)
        /\ Reads(u, s[e + 1].name, ls)
        /\ \A k \in 1..e : Reads(u, s[k].name, s[k].lines)
        /\ \A k \in (e + 2)..Len(s) : Reads(u, s[k].name, <<>>)
    BY <1>1, <1>2, <1>4, LaidNext
  <1>7. ASSUME NEW k \in 1..Len(s)
        PROVE  \E r \in Seq(LineType) : Reads(u, s[k].name, r) /\ Left(s[k].lines, k, c, r)
    <2>1. CASE k \in 1..e
      <3>1. Left(s[k].lines, k, c, s[k].lines)
        <4>1. k < c.section
          BY <1>1, <1>3, <2>1
        <4>. QED  BY <4>1 DEF Left
      <3>2. s[k].lines \in Seq(LineType)
        BY LinesOfScript
      <3>3. Reads(u, s[k].name, s[k].lines)
        BY <1>6, <2>1
      <3>. QED  BY <3>1, <3>2, <3>3
    <2>2. CASE k = d
      <3>1. Left(s[k].lines, k, c, ls)
        BY <1>3, <1>5, <2>2 DEF Left
      <3>2. ls \in Seq(LineType)
        <4>1. Printed \subseteq LineType
          BY DEF Printed
        <4>. QED  BY <1>2, <4>1, Widened
      <3>3. Reads(u, s[k].name, ls)
        BY <1>1, <1>6, <2>2
      <3>. QED  BY <3>1, <3>2, <3>3
    <2>3. CASE k > d
      <3>1. k \in (e + 2)..Len(s)
        BY <1>1, <2>3
      <3>2. Left(s[k].lines, k, c, <<>>)
        <4>1. CASE k = d + 1
          <5>1. Cut(s[k].lines, c.line - 1, <<>>)
            BY LinesOfScript, CutBefore
          <5>. QED  BY <1>3, <4>1, <5>1 DEF Left
        <4>2. CASE k # d + 1
          <5>1. c.section < k
            BY <1>1, <1>3, <2>3, <4>2
          <5>. QED  BY <1>3, <5>1 DEF Left
        <4>. QED  BY <4>1, <4>2
      <3>3. <<>> \in Seq(LineType)
        OBVIOUS
      <3>4. Reads(u, s[k].name, <<>>)
        BY <1>6, <3>1
      <3>. QED  BY <3>2, <3>3, <3>4
    <2>. QED  BY <1>1, <2>1, <2>2, <2>3
  <1>8. AllLeft(u, s, c)
    BY <1>7 DEF AllLeft
  <1>. QED  BY <1>6, <1>8 DEF c

\* The text is a piece of the first marker.
LEMMA LeftNothing ==
    ASSUME NEW s, WellMade(s)
    PROVE  <<Piece>> \in Seq(LineType) /\ AllLeft(<<Piece>>, s, [section |-> 1, line |-> 1])
  <1>. DEFINE c == [section |-> 1, line |-> 1]
              t == <<Piece>>
  <1>1. t \in Seq(LineType) /\ Len(t) = 1 /\ DOMAIN t = {1} /\ t[1].is # "==="
    <2>1. Piece \in LineType /\ Piece.is # "==="
      BY PieceTyped DEF Printed
    <2>. QED  BY <2>1
  <1>2. c.section = 1 /\ c.line = 1
    OBVIOUS
  <1>. HIDE DEF c, t
  <1>3. \A x : Under(t, x) = {}
    BY <1>1 DEF Under
  <1>4. ASSUME NEW k \in 1..Len(s)
        PROVE  \E r \in Seq(LineType) : Reads(t, s[k].name, r) /\ Left(s[k].lines, k, c, r)
    <2>1. Reads(t, s[k].name, <<>>)
      BY <1>1, <1>3, ReadsNothing
    <2>2. Left(s[k].lines, k, c, <<>>)
      <3>1. CASE k = 1
        <4>1. Cut(s[k].lines, c.line - 1, <<>>)
          BY LinesOfScript, CutBefore
        <4>. QED  BY <1>2, <3>1, <4>1 DEF Left
      <3>2. CASE k # 1
        <4>1. c.section < k /\ c.section # 0
          BY <1>2, <3>2 DEF WellMade
        <4>. QED  BY <4>1 DEF Left
      <3>. QED  BY <3>1, <3>2
    <2>3. <<>> \in Seq(LineType)
      OBVIOUS
    <2>. QED  BY <2>1, <2>2, <2>3
  <1>5. AllLeft(t, s, c)
    BY <1>4 DEF AllLeft
  <1>. QED  BY <1>1, <1>5 DEF c, t

\* What is received while the script runs: the sections of the probes that are done.
Before(t, s, d) ==
    IF d = 0 THEN t = <<>>
    ELSE \E T : Laid(T, s, d - 1) /\ t = Added(T, s[d].name, s[d].lines)

\* What was received so far is laid out, section by section.
LEMMA BeforeLaid ==
    ASSUME NEW s, WellMade(s), NEW d \in 0..Len(s), NEW t, Before(t, s, d)
    PROVE  Laid(t, s, d)
  <1>1. CASE d = 0
    BY <1>1, LaidNothing DEF Before
  <1>2. CASE d # 0
    <2>1. PICK T : Laid(T, s, d - 1) /\ t = Added(T, s[d].name, s[d].lines)
      BY <1>2 DEF Before
    <2>. DEFINE e == d - 1
    <2>2. e \in 0..(Len(s) - 1) /\ e + 1 = d
      BY <1>2 DEF WellMade
    <2>. HIDE DEF e
    <2>3. Laid(T, s, e) /\ t = Added(T, s[e + 1].name, s[e + 1].lines)
      BY <2>1, <2>2 DEF e
    <2>4. Laid(t, s, e + 1)
      BY <2>2, <2>3, LaidMore
    <2>. QED  BY <2>2, <2>4
  <1>. QED  BY <1>1, <1>2

\* Three texts are put together in either order.
LEMMA Appended ==
    ASSUME NEW s \in Seq(LineType), NEW t \in Seq(LineType), NEW u \in Seq(LineType)
    PROVE  (s \o t) \o u = s \o (t \o u)
  BY ConcatAssociative

\* A text with part of a section added.
LEMMA AddedPart ==
    ASSUME NEW t \in Seq(LineType), NEW name \in Names, NEW L \in Seq(Printed),
           NEW rest \in Seq(Printed)
    PROVE  Added(t, name, L) \o rest = Added(t, name, L \o rest)
  <1>. DEFINE m == <<Mark(name)>>
  <1>1. Printed \subseteq LineType
    BY DEF Printed
  <1>2. m \in Seq(LineType) /\ L \in Seq(LineType) /\ rest \in Seq(LineType)
    <2>1. Mark(name) \in LineType
      BY DEF Mark, LineType
    <2>. QED  BY <1>1, <2>1, Widened
  <1>3. Added(t, name, L) = t \o (m \o L) /\ Added(t, name, L \o rest) = t \o (m \o (L \o rest))
    BY DEF Added
  <1>. HIDE DEF m
  <1>4. m \o L \in Seq(LineType)
    BY <1>2
  <1>5. (t \o (m \o L)) \o rest = t \o ((m \o L) \o rest)
    <2>. DEFINE v == m \o L
    <2>1. v \in Seq(LineType)
      BY <1>4
    <2>. HIDE DEF v
    <2>2. (t \o v) \o rest = t \o (v \o rest)
      BY <1>2, <2>1, Appended, SMTT(20), ZenonT(30)
    <2>. QED  BY <2>2 DEF v
  <1>6. (m \o L) \o rest = m \o (L \o rest)
    BY <1>2, Appended, SMTT(20), ZenonT(30)
  <1>. QED  BY <1>3, <1>5, <1>6

\* The lines of a probe, up to one of them.
LEMMA FirstLines ==
    ASSUME NEW x, NEW L \in Seq(Printed), NEW n \in 2..(Len(L) + 1)
    PROVE  /\ (<<x>> \o L)[n] = L[n - 1]
           /\ SubSeq(<<x>> \o L, 1, n - 1) = <<x>> \o SubSeq(L, 1, n - 2)
  <1>. DEFINE S == Printed \cup {x}
              a == <<x>>
              v == a \o L
  <1>1. a \in Seq(S) /\ Len(a) = 1 /\ a[1] = x /\ Len(L) \in Nat
    OBVIOUS
  <1>2. L \in Seq(S)
    <2>1. Printed \subseteq S
      OBVIOUS
    <2>. HIDE DEF S
    <2>. QED  BY <2>1, Widened
  <1>. HIDE DEF S, a
  <1>3. /\ v \in Seq(S) /\ Len(v) = Len(a) + Len(L)
        /\ \A i \in 1..(Len(a) + Len(L)) : v[i] = IF i <= Len(a) THEN a[i] ELSE L[i - Len(a)]
    BY <1>1, <1>2, ConcatProperties
  <1>. HIDE DEF v
  <1>4. v[1] = x /\ \A i \in 2..(Len(L) + 1) : v[i] = L[i - 1]
    <2>1. 1 \in 1..(Len(a) + Len(L)) /\ 1 <= Len(a)
      BY <1>1
    <2>2. ASSUME NEW i \in 2..(Len(L) + 1) PROVE v[i] = L[i - 1]
      <3>1. i \in 1..(Len(a) + Len(L)) /\ ~(i <= Len(a)) /\ i - Len(a) = i - 1
        BY <1>1
      <3>. QED  BY <1>3, <3>1
    <2>. QED  BY <1>1, <1>3, <2>1, <2>2
  <1>. DEFINE p == SubSeq(v, 1, n - 1)
              r == SubSeq(L, 1, n - 2)
              q == a \o r
  <1>5. p \in Seq(S) /\ Len(p) = n - 1 /\ \A i \in 1..(n - 1) : p[i] = v[i]
    <2>1. n - 1 \in Nat /\ n - 1 <= Len(v) /\ Len(v) \in Nat
      BY <1>1, <1>3
    <2>. QED  BY <1>3, <2>1
  <1>6. r \in Seq(S) /\ Len(r) = n - 2 /\ \A i \in 1..(n - 2) : r[i] = L[i]
    <2>1. n - 2 \in Nat /\ n - 2 <= Len(L)
      BY <1>1
    <2>. QED  BY <1>1, <1>2, <2>1
  <1>. HIDE DEF p, r
  <1>7. /\ q \in Seq(S) /\ Len(q) = Len(a) + Len(r)
        /\ \A i \in 1..(Len(a) + Len(r)) : q[i] = IF i <= Len(a) THEN a[i] ELSE r[i - Len(a)]
    BY <1>1, <1>6, ConcatProperties
  <1>. HIDE DEF q
  <1>8. Len(q) = n - 1
    BY <1>1, <1>6, <1>7
  <1>9. ASSUME NEW i \in 1..Len(p) PROVE p[i] = q[i]
    <2>1. i \in 1..(n - 1) /\ i \in 1..(Len(a) + Len(r)) /\ i \in 1..(Len(a) + Len(L))
      BY <1>1, <1>5, <1>6
    <2>2. CASE i = 1
      <3>1. q[i] = a[1]
        BY <1>1, <1>7, <2>1, <2>2
      <3>. QED  BY <1>1, <1>4, <1>5, <2>1, <2>2, <3>1
    <2>3. CASE i # 1
      <3>1. i - 1 \in 1..(n - 2) /\ i \in 2..(Len(L) + 1) /\ ~(i <= Len(a)) /\ i - Len(a) = i - 1
        BY <1>1, <2>1, <2>3
      <3>2. q[i] = r[i - 1]
        BY <1>7, <2>1, <3>1
      <3>3. p[i] = L[i - 1]
        BY <1>4, <1>5, <2>1, <3>1
      <3>. QED  BY <1>6, <3>1, <3>2, <3>3
    <2>. QED  BY <2>2, <2>3
  <1>10. p = q
    BY <1>5, <1>7, <1>8, <1>9, SeqEqual
  <1>. QED  BY <1>4, <1>10 DEF p, q, r, v, a

\* The text is cut off at line n of the next probe.
LEMMA CutOffLeft ==
    ASSUME NEW s, WellMade(s), NEW d \in 0..(Len(s) - 1), NEW t, Before(t, s, d),
           NEW n \in 1..Len(Lines(s[d + 1])),
           NEW rest \in {<<>>} \cup {<<l>> : l \in CutLines(Lines(s[d + 1])[n])},
           NEW u, u = t \o SubSeq(Lines(s[d + 1]), 1, n - 1) \o rest
    PROVE  u \in Seq(LineType) /\ AllLeft(u, s, [section |-> d + 1, line |-> n])
  <1>. DEFINE name == s[d + 1].name
              L == s[d + 1].lines
              lines == <<Mark(name)>> \o L
  <1>1. Len(s) \in Nat /\ d \in Nat /\ d + 1 \in 1..Len(s) /\ d \in 0..Len(s)
    BY DEF WellMade
  <1>2. name \in Names /\ L \in Seq(Printed)
    BY <1>1 DEF WellMade
  <1>3. Laid(t, s, d)
    BY <1>1, BeforeLaid
  <1>4. t \in Seq(LineType)
    BY <1>3 DEF Laid
  <1>5. Lines(s[d + 1]) = lines
    BY DEF Lines
  <1>. DEFINE x == Mark(name)
  <1>6. x \in LineType /\ lines = <<x>> \o L
    BY <1>2 DEF Mark, LineType
  <1>. HIDE DEF name, L
  <1>7. lines[1] = x /\ Len(lines) = Len(L) + 1 /\ Len(L) \in Nat
    <2>. HIDE DEF x
    <2>1. L \in Seq(Printed)
      BY <1>2
    <2>2. (<<x>> \o L)[1] = x /\ Len(<<x>> \o L) = Len(L) + 1 /\ Len(L) \in Nat
      BY <2>1
    <2>. QED  BY <1>6, <2>2
  <1>8. n \in 1..(Len(L) + 1) /\ u = t \o SubSeq(lines, 1, n - 1) \o rest
        /\ rest \in {<<>>} \cup {<<l>> : l \in CutLines(lines[n])}
    BY <1>5, <1>7
  <1>. HIDE DEF lines, x
  <1>9. CASE n = 1
    <2>1. SubSeq(lines, 1, n - 1) = <<>>
      BY <1>9
    <2>2. t \o <<>> = t
      BY <1>4, ConcatEmptySeq
    <2>3. u = t \o rest
      BY <1>8, <2>1, <2>2
    <2>4. CASE rest = <<>>
      <3>1. u = t
        BY <1>4, <2>3, <2>4
      <3>. QED  BY <1>3, <1>4, <1>9, <3>1, LeftAfter
    <2>5. ASSUME rest = <<Piece>>
          PROVE  u \in Seq(LineType) /\ AllLeft(u, s, [section |-> d + 1, line |-> 1])
      <3>1. CASE d = 0
        <4>1. t = <<>>
          BY <3>1 DEF Before
        <4>2. <<Piece>> \in Seq(Printed)
          BY PieceTyped
        <4>3. <<>> \o <<Piece>> = <<Piece>>
          BY <4>2, ConcatEmptySeq
        <4>4. u = <<Piece>>
          BY <2>3, <2>5, <4>1, <4>3
        <4>5. d + 1 = 1
          BY <3>1
        <4>. QED  BY <4>4, <4>5, LeftNothing
      <3>2. CASE d # 0
        <4>1. PICK T : Laid(T, s, d - 1) /\ t = Added(T, s[d].name, s[d].lines)
          BY <3>2 DEF Before
        <4>2. d \in 1..(Len(s) - 1) /\ d \in 1..Len(s)
          BY <1>1, <3>2
        <4>3. T \in Seq(LineType)
          BY <4>1 DEF Laid
        <4>4. s[d].name \in Names /\ s[d].lines \in Seq(Printed)
          BY <4>2 DEF WellMade
        <4>5. u = Added(T, s[d].name, s[d].lines \o <<Piece>>)
          <5>1. rest \in Seq(Printed)
            BY <2>5, PieceTyped
          <5>2. Added(T, s[d].name, s[d].lines) \o rest = Added(T, s[d].name, s[d].lines \o rest)
            BY <4>3, <4>4, <5>1, AddedPart
          <5>. QED  BY <2>3, <2>5, <4>1, <5>2
        <4>. QED  BY <4>1, <4>2, <4>5, LeftPiece
      <3>. QED  BY <3>1, <3>2
    <2>6. CASE rest = <<x>>
      <3>1. u = Added(t, name, <<>>)
        <4>1. <<x>> \o <<>> = <<x>>
          OBVIOUS
        <4>. QED  BY <2>3, <2>6, <4>1 DEF Added, x
      <3>2. Cut(L, n - 1, <<>>)
        BY <1>2, CutBefore
      <3>3. n \in Nat
        BY <1>9
      <3>. QED  BY <1>3, <3>1, <3>2, <3>3, LeftCut DEF L, name
    <2>7. rest \in {<<>>, <<Piece>>, <<x>>}
      <3>1. CutLines(x) = {Piece, x}
        BY DEF CutLines, x, Mark, Counts, Cents, Begun, Texts, NameKinds
      <3>. QED  BY <1>7, <1>8, <1>9, <3>1
    <2>. QED  BY <1>9, <2>4, <2>5, <2>6, <2>7
  <1>10. CASE n # 1
    <2>. DEFINE m == n - 1
                S == SubSeq(L, 1, m - 1)
    <2>1. n \in 2..(Len(L) + 1) /\ m \in 1..Len(L) /\ m - 1 = n - 2 /\ n \in Nat
      BY <1>7, <1>8, <1>10
    <2>2. lines[n] = L[m] /\ SubSeq(lines, 1, n - 1) = <<x>> \o S
      BY <1>2, <1>6, <2>1, FirstLines
    <2>3. rest \in {<<>>} \cup {<<l>> : l \in CutLines(L[m])}
      BY <1>8, <2>2
    <2>4. Cut(L, m, S \o rest)
      BY <1>2, <2>1, <2>3, CutWithin
    <2>5. S \in Seq(Printed)
      BY <1>2, <1>7, <2>1
    <2>6. rest \in Seq(Printed)
      <3>1. L[m] \in Printed
        BY <1>2, <2>1
      <3>2. ASSUME NEW l \in CutLines(L[m]) PROVE <<l>> \in Seq(Printed)
        <4>1. l \in Printed
          BY <3>1, CutTyped
        <4>. QED  BY <4>1
      <3>3. <<>> \in Seq(Printed)
        OBVIOUS
      <3>4. rest = <<>> \/ \E l \in CutLines(L[m]) : rest = <<l>>
        BY <2>3
      <3>. QED  BY <3>2, <3>3, <3>4
    <2>7. u = Added(t, name, S) \o rest
      BY <1>8, <2>2 DEF Added, x
    <2>. HIDE DEF S, m
    <2>8. u = Added(t, name, S \o rest)
      BY <1>2, <1>4, <2>5, <2>6, <2>7, AddedPart
    <2>. DEFINE ls == S \o rest
    <2>9. Cut(L, n - 1, ls) /\ u = Added(t, name, ls)
      BY <2>4, <2>8 DEF m
    <2>. HIDE DEF ls
    <2>. QED  BY <1>3, <2>1, <2>9, LeftCut DEF L, name
  <1>. QED  BY <1>9, <1>10

-----------------------------------------------------------------------------
(* The inductive invariant: while the script runs, the text is that of the  *)
(* probes that are done; what was received is that of all of them, or what  *)
(* is left of it when it is cut off; an answer is what is read of it.       *)

HostKnown ==
    \/ tool = "triage" /\ host \in TriageHosts
    \/ tool = "host_facts" /\ host \in FactsHosts
Received ==
    /\ text \in Seq(LineType) /\ AllLeft(text, Script, cut)
    /\ cut = Whole \/ cut.section \in 1..Len(Script)
    /\ cut.line \in Int
Told ==
    /\ facts = IF tool = "triage" THEN TriageFacts(text) ELSE FactsRead(text)
    /\ warnings = IF tool = "triage" THEN Warnings(facts) ELSE {}
IInv ==
    /\ HostKnown
    /\ pc \in {"running", "received", "answered"}
    /\ done \in 0..Len(Script)
    /\ pc = "running" => cut = Whole /\ Before(text, Script, done)
    /\ pc # "running" => Received
    /\ pc # "answered" => warnings = {}
    /\ pc = "answered" => Told

\* The script that runs is well made, whichever tool was called.
LEMMA ScriptMade ==
    ASSUME HostKnown
    PROVE  WellMade(Script)
  <1>1. CASE tool = "triage" /\ host \in TriageHosts
    <2>1. host \in TriageHost
      BY <1>1, HostsAssumption
    <2>. QED  BY <1>1, <2>1, TriageWellMade DEF Script
  <1>2. CASE tool = "host_facts" /\ host \in FactsHosts
    <2>1. host \in FactsHost
      BY <1>2, HostsAssumption
    <2>. QED  BY <1>2, <2>1, FactsWellMade DEF Script
  <1>. QED  BY <1>1, <1>2 DEF HostKnown

\* IInv holds at the start.
LEMMA InitHolds == Init => IInv
  <1>. SUFFICES ASSUME Init PROVE IInv
    OBVIOUS
  <1>1. HostKnown /\ pc = "running" /\ done = 0 /\ text = <<>> /\ cut = Whole /\ warnings = {}
    BY DEF Init, HostKnown
  <1>2. Before(text, Script, done)
    BY <1>1 DEF Before
  <1>3. Len(Script) \in Nat
    BY <1>1, ScriptMade DEF WellMade
  <1>4. done \in 0..Len(Script)
    BY <1>1, <1>3
  <1>. QED  BY <1>1, <1>2, <1>4 DEF IInv

\* A section that has run and printed its lines: one more is laid out.
LEMMA RunProbeKeeps == IInv /\ RunProbe => IInv'
  <1>. SUFFICES ASSUME IInv, RunProbe PROVE IInv'
    OBVIOUS
  <1>1. /\ HostKnown /\ pc = "running" /\ cut = Whole /\ Before(text, Script, done)
        /\ warnings = {} /\ done \in 0..Len(Script)
    BY DEF IInv, RunProbe
  <1>2. /\ done < Len(Script) /\ text' = text \o Lines(Script[done + 1]) /\ done' = done + 1
        /\ tool' = tool /\ host' = host /\ pc' = pc /\ cut' = cut /\ warnings' = warnings
    BY DEF RunProbe
  <1>3. HostKnown' /\ Script' = Script
    BY <1>1, <1>2 DEF HostKnown, Script
  <1>. DEFINE s == Script
  <1>4. WellMade(s) /\ Len(s) \in Nat
    BY <1>1, ScriptMade DEF WellMade
  <1>. HIDE DEF s
  <1>5. done \in 0..(Len(s) - 1) /\ done' \in 0..Len(s) /\ done' # 0 /\ done' - 1 = done
    BY <1>1, <1>2, <1>4 DEF s
  <1>6. Before(text', s, done')
    <2>1. Laid(text, s, done)
      BY <1>1, <1>4, BeforeLaid DEF s
    <2>2. text' = Added(text, s[done'].name, s[done'].lines)
      BY <1>2 DEF Lines, Added, s
    <2>3. Laid(text, s, done' - 1)
      BY <1>5, <2>1
    <2>. QED  BY <1>5, <2>2, <2>3 DEF Before
  <1>. QED  BY <1>1, <1>2, <1>3, <1>5, <1>6 DEF IInv, s

\* The whole output received: nothing was cut.
LEMMA ReceiveKeeps == IInv /\ Receive => IInv'
  <1>. SUFFICES ASSUME IInv, Receive PROVE IInv'
    OBVIOUS
  <1>1. /\ HostKnown /\ pc = "running" /\ cut = Whole /\ Before(text, Script, done)
        /\ warnings = {} /\ done \in 0..Len(Script)
    BY DEF IInv, Receive
  <1>2. /\ done = Len(Script) /\ pc' = "received" /\ text' = text /\ done' = done
        /\ tool' = tool /\ host' = host /\ cut' = cut /\ warnings' = warnings
    BY DEF Receive
  <1>3. HostKnown' /\ Script' = Script
    BY <1>1, <1>2 DEF HostKnown, Script
  <1>4. Laid(text, Script, Len(Script)) /\ WellMade(Script)
    BY <1>1, <1>2, ScriptMade, BeforeLaid
  <1>5. text \in Seq(LineType) /\ AllLeft(text, Script, Whole)
    BY <1>4, LeftWhole DEF Laid
  <1>6. Received'
    BY <1>1, <1>2, <1>3, <1>5 DEF Received, Whole
  <1>. QED  BY <1>1, <1>2, <1>3, <1>6 DEF IInv

\* The text ends before a line of a section, or within it.
LEMMA CutOffKeeps ==
    ASSUME NEW n \in 1..(IF done < Len(Script) THEN Len(Lines(Script[done + 1])) ELSE 0),
           IInv, CutOff(n)
    PROVE  IInv'
  <1>1. /\ HostKnown /\ pc = "running" /\ cut = Whole /\ Before(text, Script, done)
        /\ warnings = {} /\ done \in 0..Len(Script)
    BY DEF IInv, CutOff
  <1>. DEFINE s == Script
  <1>2. /\ done < Len(s) /\ n \in 1..Len(Lines(s[done + 1])) /\ pc' = "received" /\ done' = done
        /\ cut' = [section |-> done + 1, line |-> n]
        /\ tool' = tool /\ host' = host /\ warnings' = warnings
    BY DEF CutOff
  <1>3. PICK rest \in {<<>>} \cup {<<l>> : l \in CutLines(Lines(s[done + 1])[n])} :
           text' = text \o SubSeq(Lines(s[done + 1]), 1, n - 1) \o rest
    BY DEF CutOff
  <1>4. HostKnown' /\ Script' = s
    BY <1>1, <1>2 DEF HostKnown, Script
  <1>5. WellMade(s) /\ Len(s) \in Nat /\ Before(text, s, done) /\ done \in 0..Len(s)
    BY <1>1, ScriptMade DEF WellMade
  <1>. HIDE DEF s
  <1>6. done \in 0..(Len(s) - 1) /\ done + 1 \in 1..Len(s)
    BY <1>2, <1>5
  <1>7. text' \in Seq(LineType) /\ AllLeft(text', s, [section |-> done + 1, line |-> n])
    BY <1>2, <1>3, <1>5, <1>6, CutOffLeft
  <1>8. Received'
    BY <1>2, <1>4, <1>6, <1>7 DEF Received
  <1>. QED  BY <1>1, <1>2, <1>4, <1>5, <1>8 DEF IInv

\* The answer is what the parser makes of the text: the text stays.
LEMMA AnswerKeeps == IInv /\ Answer => IInv'
  <1>. SUFFICES ASSUME IInv, Answer PROVE IInv'
    OBVIOUS
  <1>1. HostKnown /\ pc = "received" /\ Received /\ done \in 0..Len(Script)
    BY DEF IInv, Answer
  <1>2. /\ pc' = "answered" /\ tool' = tool /\ host' = host /\ done' = done /\ text' = text
        /\ cut' = cut
        /\ facts' = IF tool = "triage" THEN TriageFacts(text) ELSE FactsRead(text)
        /\ warnings' = IF tool = "triage" THEN Warnings(facts') ELSE {}
    BY DEF Answer
  <1>3. HostKnown' /\ Script' = Script
    BY <1>1, <1>2 DEF HostKnown, Script
  <1>4. Received' /\ Told'
    BY <1>1, <1>2, <1>3 DEF Received, Told
  <1>. QED  BY <1>1, <1>2, <1>3, <1>4 DEF IInv

\* IInv is an invariant.
LEMMA InvHolds == Spec => []IInv
  <1>1. IInv /\ UNCHANGED vars => IInv'
    <2>. SUFFICES ASSUME IInv, UNCHANGED vars PROVE IInv'
      OBVIOUS
    <2>1. /\ tool' = tool /\ host' = host /\ pc' = pc /\ done' = done /\ text' = text /\ cut' = cut
          /\ facts' = facts /\ warnings' = warnings
      BY DEF vars
    <2>2. Script' = Script
      BY <2>1 DEF Script
    <2>. QED  BY <2>1, <2>2 DEF IInv, HostKnown, Received, Told
  <1>2. IInv /\ Next => IInv'
    BY RunProbeKeeps, ReceiveKeeps, CutOffKeeps, AnswerKeeps DEF Next
  <1>. QED  BY InitHolds, <1>1, <1>2, PTL DEF Spec

-----------------------------------------------------------------------------
(* What triage reads.                                                      *)

\* Every section of triage reads as what is printed of it.
TriageReads(t, h, r) == \A k \in 1..18 : Reads(t, TriageScript(h)[k].name, r[k]) /\ Len(r[k]) \in Nat

\* Triage tells what is read of its sections.
TriageTells(f, t, r) ==
    /\ f.load1 = FirstIn(r[1], "load1") /\ f.nproc = FirstIn(r[2], "nproc")
    /\ f.memTotal = FirstIn(r[3], "MemTotal")
    /\ f.memAvailable = FirstIn(r[3], "MemAvailable")
    /\ f.swapTotal = FirstIn(r[3], "SwapTotal") /\ f.swapFree = FirstIn(r[3], "SwapFree")
    /\ f.disks = PercentsIn(r[4]) /\ f.failed = Len(r[5])
    /\ f.psi["cpu"] = FirstIn(r[6], "psi_cpu")
    /\ f.psi["memory"] = FirstIn(r[7], "psi_memory")
    /\ f.psi["io"] = FirstIn(r[8], "psi_io")
    /\ f.oom = Len(r[9]) /\ f.inodes = PercentsIn(r[10])
    /\ f.zombies = Count(t, "ps_states", "Z") /\ f.stuck = Count(t, "ps_states", "D")
    /\ f.offset = FirstIn(r[13], "offset") /\ f.leap = FirstIn(r[13], "leap")
    /\ f.count = IF HasIn(r[14], "count") /\ HasIn(r[14], "max")
                 THEN FirstIn(r[14], "count") ELSE None
    /\ f.max = IF HasIn(r[14], "count") /\ HasIn(r[14], "max")
               THEN FirstIn(r[14], "max") ELSE None
    /\ f.reboot = HasIn(r[15], "yes") /\ f.taint = FirstIn(r[16], "taint")
    /\ f.nics = OfKind(r[17], 1..Len(r[17]), "nic")

\* Each fact of host_triage is read from the lines of its own section.
LEMMA TriageRead ==
    ASSUME NEW t, NEW h, NEW r, TriageReads(t, h, r), NEW f, f = TriageFacts(t)
    PROVE  TriageTells(f, t, r)
  <1>. DEFINE s == TriageScript(h)
              A(x, k) == /\ Len(r[k]) \in Nat /\ Reads(t, x, r[k])
                         /\ \A is : First(t, Under(t, x), is) = FirstIn(r[k], is)
                         /\ \A is : HasLine(t, Under(t, x), is) = HasIn(r[k], is)
  <1>1. ASSUME NEW k \in 1..18 PROVE A(s[k].name, k)
    <2>1. Len(r[k]) \in Nat /\ Reads(t, s[k].name, r[k])
      BY DEF TriageReads
    <2>. HIDE DEF s
    <2>. QED  BY <2>1, ReadFirst
  <1>2. /\ s[1].name = "loadavg" /\ s[2].name = "nproc" /\ s[3].name = "meminfo"
        /\ s[4].name = "df" /\ s[5].name = "failed_units" /\ s[6].name = "psi_cpu"
        /\ s[7].name = "psi_memory" /\ s[8].name = "psi_io" /\ s[9].name = "oom"
        /\ s[10].name = "df_inodes" /\ s[11].name = "ps_states" /\ s[13].name = "clock"
        /\ s[14].name = "conntrack" /\ s[15].name = "reboot_required"
        /\ s[16].name = "kernel_taint" /\ s[17].name = "net_dev"
    BY TriageNames
  <1>. HIDE DEF s, A
  <1>3. /\ A("loadavg", 1) /\ A("nproc", 2) /\ A("meminfo", 3) /\ A("df", 4)
        /\ A("failed_units", 5) /\ A("psi_cpu", 6) /\ A("psi_memory", 7) /\ A("psi_io", 8)
        /\ A("oom", 9) /\ A("df_inodes", 10) /\ A("clock", 13) /\ A("conntrack", 14)
        /\ A("reboot_required", 15) /\ A("kernel_taint", 16) /\ A("net_dev", 17)
    <2>1. \A k \in 1..18 : A(s[k].name, k)
      BY <1>1
    <2>2. \A x : \A k \in 1..18 : s[k].name = x => A(x, k)
      BY <2>1
    <2>. QED  BY <1>2, <2>2
  <1>. DEFINE tracked == /\ HasLine(t, Under(t, "conntrack"), "count")
                         /\ HasLine(t, Under(t, "conntrack"), "max")
  <1>4. /\ f.load1 = First(t, Under(t, "loadavg"), "load1")
        /\ f.nproc = First(t, Under(t, "nproc"), "nproc")
        /\ f.memTotal = First(t, Under(t, "meminfo"), "MemTotal")
        /\ f.memAvailable = First(t, Under(t, "meminfo"), "MemAvailable")
        /\ f.swapTotal = First(t, Under(t, "meminfo"), "SwapTotal")
        /\ f.swapFree = First(t, Under(t, "meminfo"), "SwapFree")
        /\ f.psi["cpu"] = First(t, Under(t, "psi_cpu"), "psi_cpu")
        /\ f.psi["memory"] = First(t, Under(t, "psi_memory"), "psi_memory")
        /\ f.psi["io"] = First(t, Under(t, "psi_io"), "psi_io")
        /\ f.offset = First(t, Under(t, "clock"), "offset")
        /\ f.leap = First(t, Under(t, "clock"), "leap")
        /\ f.count = IF tracked THEN First(t, Under(t, "conntrack"), "count") ELSE None
        /\ f.max = IF tracked THEN First(t, Under(t, "conntrack"), "max") ELSE None
        /\ f.reboot = HasLine(t, Under(t, "reboot_required"), "yes")
        /\ f.taint = First(t, Under(t, "kernel_taint"), "taint")
    BY DEF TriageFacts
  <1>5. /\ f.disks = Percents(t, "df") /\ f.inodes = Percents(t, "df_inodes")
        /\ f.failed = NonBlank(t, "failed_units") /\ f.oom = NonBlank(t, "oom")
        /\ f.zombies = Count(t, "ps_states", "Z") /\ f.stuck = Count(t, "ps_states", "D")
        /\ f.nics = OfKind(t, Under(t, "net_dev"), "nic")
    BY DEF TriageFacts, OfKind
  <1>6. /\ f.load1 = FirstIn(r[1], "load1") /\ f.nproc = FirstIn(r[2], "nproc")
        /\ f.memTotal = FirstIn(r[3], "MemTotal")
        /\ f.memAvailable = FirstIn(r[3], "MemAvailable")
        /\ f.swapTotal = FirstIn(r[3], "SwapTotal") /\ f.swapFree = FirstIn(r[3], "SwapFree")
    BY <1>3, <1>4 DEF A
  <1>7. /\ f.psi["cpu"] = FirstIn(r[6], "psi_cpu")
        /\ f.psi["memory"] = FirstIn(r[7], "psi_memory")
        /\ f.psi["io"] = FirstIn(r[8], "psi_io")
        /\ f.offset = FirstIn(r[13], "offset") /\ f.leap = FirstIn(r[13], "leap")
        /\ f.taint = FirstIn(r[16], "taint") /\ f.reboot = HasIn(r[15], "yes")
    BY <1>3, <1>4 DEF A
  <1>8. /\ f.count = IF HasIn(r[14], "count") /\ HasIn(r[14], "max")
                     THEN FirstIn(r[14], "count") ELSE None
        /\ f.max = IF HasIn(r[14], "count") /\ HasIn(r[14], "max")
                   THEN FirstIn(r[14], "max") ELSE None
    <2>1. (tracked <=> HasIn(r[14], "count") /\ HasIn(r[14], "max"))
          /\ First(t, Under(t, "conntrack"), "count") = FirstIn(r[14], "count")
          /\ First(t, Under(t, "conntrack"), "max") = FirstIn(r[14], "max")
      BY <1>3 DEF A
    <2>. HIDE DEF tracked
    <2>. QED  BY <1>4, <2>1
  <1>9. f.disks = PercentsIn(r[4]) /\ f.inodes = PercentsIn(r[10])
    <2>1. Percents(t, "df") = PercentsIn(r[4])
      BY <1>3, ReadPercents DEF A
    <2>2. Percents(t, "df_inodes") = PercentsIn(r[10])
      BY <1>3, ReadPercents DEF A
    <2>. QED  BY <1>5, <2>1, <2>2
  <1>10. f.failed = Len(r[5]) /\ f.oom = Len(r[9])
    <2>1. NonBlank(t, "failed_units") = Len(r[5])
      BY <1>3, Counted DEF A
    <2>2. NonBlank(t, "oom") = Len(r[9])
      BY <1>3, Counted DEF A
    <2>. QED  BY <1>5, <2>1, <2>2
  <1>11. f.nics = OfKind(r[17], 1..Len(r[17]), "nic")
    <2>1. Len(r[17]) \in Nat /\ Reads(t, "net_dev", r[17])
      BY <1>3 DEF A
    <2>. DEFINE ls == r[17]
    <2>2. Len(ls) \in Nat /\ Reads(t, "net_dev", ls)
      BY <2>1
    <2>. HIDE DEF ls
    <2>3. OfKind(t, Under(t, "net_dev"), "nic") = OfKind(ls, 1..Len(ls), "nic")
      BY <2>2, ReadKind
    <2>. QED  BY <1>5, <2>3 DEF ls
  <1>. QED  BY <1>6, <1>7, <1>8, <1>9, <1>10, <1>11, <1>5 DEF TriageTells

\* A piece of a marker is none of the lines that are looked for.
LEMMA PieceSkipped ==
    ASSUME NEW L \in Seq(LineType), NEW is, is # "piece"
    PROVE  /\ FirstIn(L \o <<Piece>>, is) = FirstIn(L, is)
           /\ HasIn(L \o <<Piece>>, is) = HasIn(L, is)
  <1>. DEFINE p == <<Piece>>
  <1>1. p \in Seq(LineType)
    <2>1. Piece \in LineType
      BY PieceTyped DEF Printed
    <2>. QED  BY <2>1
  <1>2. FirstIn(p, is) = None
    <2>1. Piece.is # is
      BY DEF Piece, Line
    <2>. QED  BY <2>1, FirstAlone
  <1>. HIDE DEF p
  <1>3. FirstIn(L \o p, is) = FirstIn(L, is)
    BY <1>1, <1>2, FirstJoined
  <1>4. L \o p \in Seq(LineType)
    BY <1>1
  <1>5. HasIn(L \o p, is) <=> HasIn(L, is)
    <2>. DEFINE v == L \o p
    <2>1. v \in Seq(LineType) /\ FirstIn(v, is) = FirstIn(L, is)
      BY <1>3, <1>4
    <2>. HIDE DEF v
    <2>2. (HasIn(v, is) <=> FirstIn(v, is) # None) /\ (HasIn(L, is) <=> FirstIn(L, is) # None)
      BY <2>1, FirstKnown
    <2>. QED  BY <2>1, <2>2 DEF v
  <1>6. HasIn(L \o p, is) \in BOOLEAN /\ HasIn(L, is) \in BOOLEAN
    BY DEF HasIn, HasLine
  <1>. QED  BY <1>3, <1>5, <1>6 DEF p

\* A line said may be read of its section.
Entire(L, ls) == ls = L \/ ls = L \o <<Piece>>

\* A section printed to its end reads as it was printed.
LEMMA EntireRead ==
    ASSUME NEW L \in Seq(LineType), NEW ls, Entire(L, ls), NEW is, is # "piece"
    PROVE  FirstIn(ls, is) = FirstIn(L, is) /\ HasIn(ls, is) = HasIn(L, is)
  BY PieceSkipped DEF Entire

\* A section that printed nothing reads as nothing.
LEMMA NothingRead ==
    ASSUME NEW is
    PROVE  FirstIn(<<>>, is) = None /\ ~HasIn(<<>>, is)
  BY FirstOfNone DEF HasIn, HasLine

\* Two lines, and four.
LEMMA FirstOfTwo ==
    ASSUME NEW a \in Words, NEW m \in Reading, NEW b \in Words, NEW n \in Reading, a # b
    PROVE  /\ Said(a, m) \o Said(b, n) \in Seq(LineType)
           /\ FirstIn(Said(a, m) \o Said(b, n), a) = m
           /\ FirstIn(Said(a, m) \o Said(b, n), b) = n
           /\ \A c : c # a /\ c # b => FirstIn(Said(a, m) \o Said(b, n), c) = None
  <1>. DEFINE u == Said(a, m)
              v == Said(b, n)
  <1>1. u \in Seq(LineType) /\ v \in Seq(LineType)
    <2>1. Printed \subseteq LineType
      BY DEF Printed
    <2>2. u \in Seq(Printed) /\ v \in Seq(Printed)
      BY SaidTyped
    <2>. HIDE DEF u, v
    <2>. QED  BY <2>1, <2>2, Widened
  <1>2. \A c : FirstIn(u, c) = IF c = a THEN m ELSE None
    BY FirstSaid
  <1>3. \A c : FirstIn(v, c) = IF c = b THEN n ELSE None
    BY FirstSaid
  <1>. HIDE DEF u, v
  <1>4. \A c : FirstIn(u \o v, c) = IF FirstIn(u, c) # None THEN FirstIn(u, c) ELSE FirstIn(v, c)
    BY <1>1, FirstJoined
  <1>5. u \o v \in Seq(LineType)
    BY <1>1
  <1>. QED  BY <1>2, <1>3, <1>4, <1>5 DEF u, v

\* The four numbers of /proc/meminfo are told apart.
LEMMA FirstOfFour ==
    ASSUME NEW h \in TriageHost
    PROVE  LET L == Said("MemTotal", h.memTotal) \o Said("MemAvailable", h.memAvailable)
                    \o Said("SwapTotal", h.swapTotal) \o Said("SwapFree", h.swapFree)
           IN  /\ FirstIn(L, "MemTotal") = h.memTotal
               /\ FirstIn(L, "MemAvailable") = h.memAvailable
               /\ FirstIn(L, "SwapTotal") = h.swapTotal /\ FirstIn(L, "SwapFree") = h.swapFree
  <1>. DEFINE u == Said("MemTotal", h.memTotal) \o Said("MemAvailable", h.memAvailable)
              v == Said("SwapTotal", h.swapTotal)
              w == Said("SwapFree", h.swapFree)
  <1>1. {"MemTotal", "MemAvailable", "SwapTotal", "SwapFree"} \subseteq Words
    BY DEF Words, Counts
  <1>2. /\ h.memTotal \in Reading /\ h.memAvailable \in Reading
        /\ h.swapTotal \in Reading /\ h.swapFree \in Reading
    BY DEF TriageHost, Reading
  <1>3. /\ u \in Seq(LineType) /\ FirstIn(u, "MemTotal") = h.memTotal
        /\ FirstIn(u, "MemAvailable") = h.memAvailable
        /\ FirstIn(u, "SwapTotal") = None /\ FirstIn(u, "SwapFree") = None
    <2>1. "MemTotal" \in Words /\ "MemAvailable" \in Words
      BY <1>1
    <2>. DEFINE m == h.memTotal
                n == h.memAvailable
    <2>2. m \in Reading /\ n \in Reading
      BY <1>2
    <2>. HIDE DEF m, n
    <2>. DEFINE x == Said("MemTotal", m) \o Said("MemAvailable", n)
    <2>3. /\ x \in Seq(LineType) /\ FirstIn(x, "MemTotal") = m /\ FirstIn(x, "MemAvailable") = n
          /\ \A c : c # "MemTotal" /\ c # "MemAvailable" => FirstIn(x, c) = None
      BY <2>1, <2>2, FirstOfTwo
    <2>4. u = x
      BY DEF m, n
    <2>. HIDE DEF x, u
    <2>. QED  BY <2>3, <2>4 DEF m, n
  <1>4. v \in Seq(LineType) /\ w \in Seq(LineType)
    <2>1. Printed \subseteq LineType
      BY DEF Printed
    <2>2. v \in Seq(Printed) /\ w \in Seq(Printed)
      BY <1>1, <1>2, SaidTyped
    <2>. HIDE DEF v, w
    <2>. QED  BY <2>1, <2>2, Widened
  <1>5. \A c : FirstIn(v, c) = IF c = "SwapTotal" THEN h.swapTotal ELSE None
    BY FirstSaid
  <1>6. \A c : FirstIn(w, c) = IF c = "SwapFree" THEN h.swapFree ELSE None
    BY FirstSaid
  <1>. HIDE DEF u, v, w
  <1>7. u \o v \in Seq(LineType)
    BY <1>3, <1>4
  <1>8. \A c : FirstIn(u \o v, c) = IF FirstIn(u, c) # None THEN FirstIn(u, c) ELSE FirstIn(v, c)
    BY <1>3, <1>4, FirstJoined
  <1>. DEFINE x == u \o v
  <1>9. x \in Seq(LineType) /\ \A c : FirstIn(x, c) = IF FirstIn(u, c) # None THEN FirstIn(u, c) ELSE FirstIn(v, c)
    BY <1>7, <1>8
  <1>. HIDE DEF x
  <1>10. \A c : FirstIn(x \o w, c) = IF FirstIn(x, c) # None THEN FirstIn(x, c) ELSE FirstIn(w, c)
    BY <1>4, <1>9, FirstJoined
  <1>11. /\ FirstIn(x \o w, "MemTotal") = h.memTotal
         /\ FirstIn(x \o w, "MemAvailable") = h.memAvailable
         /\ FirstIn(x \o w, "SwapTotal") = h.swapTotal /\ FirstIn(x \o w, "SwapFree") = h.swapFree
    BY <1>3, <1>5, <1>6, <1>9, <1>10
  <1>. QED  BY <1>11 DEF x, u, v, w

-----------------------------------------------------------------------------
(* Warnings and troubles, section by section.                              *)

Pressure(r, n) == IF n > 2000 THEN {Warning("pressure", "warn", r)} ELSE {}
OomAlarm(n) == IF n > 0 THEN {Warning("oom_recent", "crit", "")} ELSE {}

\* The warnings a section gives rise to, of what is read of it.
Alarms(f) ==
  << {}, LoadWarnings(f), MemoryWarnings(f), Full("disk_full", f.disks),
     If(f.failed > 0, "failed_units"), Pressure("cpu", f.psi["cpu"]),
     Pressure("memory", f.psi["memory"]), Pressure("io", f.psi["io"]), OomAlarm(f.oom),
     Full("inodes_full", f.inodes),
     If(f.zombies >= 1, "zombie_procs") \cup If(f.stuck >= 5, "stuck_procs"), {},
     ClockWarnings(f), ConntrackWarnings(f), If(f.reboot, "reboot_required"),
     If(f.taint > 0 /\ Faulty(f.taint), "kernel_tainted"),
     If(\E n \in f.nics : Noisy(n.rx) \/ Noisy(n.tx), "nic_errors"), {} >>

LoadFaults(h) ==
  IF Known(h.load1) /\ Known(h.nproc)
  THEN LET perCPU == h.load1 \div h.nproc IN Level("high_load", perCPU >= 150, perCPU >= 400)
  ELSE {}
MemoryFaults(h) ==
  (IF Known(h.memTotal) /\ Known(h.memAvailable)
   THEN LET s == Share(h.memAvailable, h.memTotal) IN Level("low_memory", s < 100, s < 50)
   ELSE {})
  \cup (IF h.swapTotal > 0 /\ Known(h.swapFree)
        THEN If(Share(h.swapFree, h.swapTotal) < 500, "swap_pressure") ELSE {})
FullFaults(kind, pcts) == UNION {Level(kind, pcts[i] >= 90, pcts[i] >= 95) : i \in DOMAIN pcts}
ConntrackFaults(h) ==
  IF Known(h.count) /\ h.max > 0
  THEN LET s == Share(h.count, h.max) IN Level("conntrack_full", s >= 900, s >= 950)
  ELSE {}
NicFaults(h) ==
  If(\E i \in DOMAIN h.nics : \E way \in {h.nics[i].rx, h.nics[i].tx} :
       way.bad >= 100 /\ Share(way.bad, way.packets + 1) >= 10
                      /\ 100 * way.bad # way.packets + 1, "nic_errors")

\* What is wrong with a host, by the section that tells.
Faults(h) ==
  << {}, LoadFaults(h), MemoryFaults(h), FullFaults("disk_full", h.disks),
     If(h.failed > 0, "failed_units"), Pressure("cpu", h.psiCpu), Pressure("memory", h.psiMemory),
     Pressure("io", h.psiIo), OomAlarm(h.oom), FullFaults("inodes_full", h.inodes),
     If(h.zombies > 0, "zombie_procs") \cup If(h.stuck > 4, "stuck_procs"), {},
     If(h.offset > 10, "clock_skew") \cup If(h.leap = 1, "clock_unsynced"), ConntrackFaults(h),
     If(h.reboot = 1, "reboot_required"),
     If(Known(h.taint) /\ FaultIn(h.taint), "kernel_tainted"), NicFaults(h), {} >>

\* A sequence of 18 sets, all put together.
Joined(q) ==
  q[1] \cup q[2] \cup q[3] \cup q[4] \cup q[5] \cup q[6] \cup q[7] \cup q[8] \cup q[9] \cup q[10]
  \cup q[11] \cup q[12] \cup q[13] \cup q[14] \cup q[15] \cup q[16] \cup q[17] \cup q[18]

\* A warning of all sections is a warning of one of them.
LEMMA JoinedIn ==
    ASSUME NEW q, NEW w
    PROVE  w \in Joined(q) <=> \E k \in 1..18 : w \in q[k]
  <1>1. ASSUME NEW k \in 1..18, w \in q[k] PROVE w \in Joined(q)
    BY <1>1 DEF Joined
  <1>2. ASSUME w \in Joined(q) PROVE \E k \in 1..18 : w \in q[k]
    BY <1>2 DEF Joined
  <1>. QED  BY <1>1, <1>2

\* The pressure of the three resources is told apart.
LEMMA PressureOfThree ==
    ASSUME NEW p
    PROVE  {Warning("pressure", "warn", r) : r \in {q \in Resources : p[q] > 2000}} =
             Pressure("cpu", p["cpu"]) \cup Pressure("memory", p["memory"])
             \cup Pressure("io", p["io"])
  <1>. DEFINE W(r) == Warning("pressure", "warn", r)
  <1>1. ASSUME NEW r \in Resources, p[r] > 2000
        PROVE  W(r) \in Pressure("cpu", p["cpu"]) \cup Pressure("memory", p["memory"])
                        \cup Pressure("io", p["io"])
    BY <1>1 DEF Resources, Pressure
  <1>2. ASSUME NEW r \in Resources, NEW w \in Pressure(r, p[r])
        PROVE  w = W(r) /\ p[r] > 2000
    BY <1>2 DEF Pressure
  <1>3. {"cpu", "memory", "io"} = Resources
    BY DEF Resources
  <1>. HIDE DEF W
  <1>4. {W(r) : r \in {q \in Resources : p[q] > 2000}} =
          Pressure("cpu", p["cpu"]) \cup Pressure("memory", p["memory"]) \cup Pressure("io", p["io"])
    BY <1>1, <1>2, <1>3
  <1>. QED  BY <1>4 DEF W

\* The warnings of host_triage, section by section.
LEMMA WarningsBySection ==
    ASSUME NEW f
    PROVE  Warnings(f) = Joined(Alarms(f))
  <1>. DEFINE P == {Warning("pressure", "warn", r) : r \in {q \in Resources : f.psi[q] > 2000}}
              C == Pressure("cpu", f.psi["cpu"])
              M == Pressure("memory", f.psi["memory"])
              I == Pressure("io", f.psi["io"])
              Z == If(f.zombies >= 1, "zombie_procs")
              D == If(f.stuck >= 5, "stuck_procs")
              L == LoadWarnings(f)
              Mem == MemoryWarnings(f)
              F1 == Full("disk_full", f.disks)
              F2 == Full("inodes_full", f.inodes)
              U == If(f.failed > 0, "failed_units")
              O == IF f.oom > 0 THEN {Warning("oom_recent", "crit", "")} ELSE {}
              K == ClockWarnings(f)
              T == ConntrackWarnings(f)
              R == If(f.reboot, "reboot_required")
              X == If(f.taint > 0 /\ Faulty(f.taint), "kernel_tainted")
              N == If(\E n \in f.nics : Noisy(n.rx) \/ Noisy(n.tx), "nic_errors")
  <1>1. P = C \cup M \cup I
    BY PressureOfThree
  <1>2. Warnings(f) = L \cup Mem \cup F1 \cup U \cup P \cup O \cup F2 \cup Z \cup D \cup K \cup T
                      \cup R \cup X \cup N
    BY DEF Warnings
  <1>3. Alarms(f) = <<{}, L, Mem, F1, U, C, M, I, O, F2, Z \cup D, {}, K, T, R, X, N, {}>>
    BY DEF Alarms, OomAlarm
  <1>. HIDE DEF P, C, M, I, Z, D, L, Mem, F1, F2, U, O, K, T, R, X, N
  <1>4. Joined(Alarms(f)) = {} \cup L \cup Mem \cup F1 \cup U \cup C \cup M \cup I \cup O \cup F2
                            \cup (Z \cup D) \cup {} \cup K \cup T \cup R \cup X \cup N \cup {}
    BY <1>3 DEF Joined
  <1>. QED  BY <1>1, <1>2, <1>4

\* The troubles of the host, by the section that would show them.
LEMMA TroublesBySection ==
    ASSUME NEW h
    PROVE  Troubles(h) = Joined(Faults(h))
  <1>. DEFINE p == [cpu |-> h.psiCpu, memory |-> h.psiMemory, io |-> h.psiIo]
              P == {Warning("pressure", "warn", r) : r \in {q \in Resources : p[q] > 2000}}
              C == Pressure("cpu", h.psiCpu)
              M == Pressure("memory", h.psiMemory)
              I == Pressure("io", h.psiIo)
              Z == If(h.zombies > 0, "zombie_procs")
              D == If(h.stuck > 4, "stuck_procs")
              L == LoadFaults(h)
              Mem == MemoryFaults(h)
              M1 == IF Known(h.memTotal) /\ Known(h.memAvailable)
                    THEN LET s == Share(h.memAvailable, h.memTotal)
                         IN  Level("low_memory", s < 100, s < 50)
                    ELSE {}
              M2 == IF h.swapTotal > 0 /\ Known(h.swapFree)
                    THEN If(Share(h.swapFree, h.swapTotal) < 500, "swap_pressure") ELSE {}
              F1 == FullFaults("disk_full", h.disks)
              F2 == FullFaults("inodes_full", h.inodes)
              U == If(h.failed > 0, "failed_units")
              O == OomAlarm(h.oom)
              K == If(h.offset > 10, "clock_skew")
              K2 == If(h.leap = 1, "clock_unsynced")
              T == ConntrackFaults(h)
              R == If(h.reboot = 1, "reboot_required")
              X == If(Known(h.taint) /\ FaultIn(h.taint), "kernel_tainted")
              N == NicFaults(h)
  <1>1. P = C \cup M \cup I
    <2>1. P = Pressure("cpu", p["cpu"]) \cup Pressure("memory", p["memory"])
              \cup Pressure("io", p["io"])
      <3>. HIDE DEF p
      <3>. QED  BY PressureOfThree
    <2>. QED  BY <2>1
  <1>2. Troubles(h) = L \cup M1 \cup M2 \cup F1 \cup F2 \cup U \cup P \cup O \cup Z \cup D \cup K \cup K2
                      \cup T \cup R \cup X \cup N
    BY DEF Troubles, LoadFaults, FullFaults, ConntrackFaults, NicFaults, OomAlarm
  <1>3. Mem = M1 \cup M2
    BY DEF MemoryFaults
  <1>4. Faults(h) = <<{}, L, Mem, F1, U, C, M, I, O, F2, Z \cup D, {}, K \cup K2, T, R, X, N, {}>>
    BY DEF Faults
  <1>. HIDE DEF P, C, M, I, Z, D, L, Mem, M1, M2, F1, F2, U, O, K, K2, T, R, X, N
  <1>5. Joined(Faults(h)) = {} \cup L \cup Mem \cup F1 \cup U \cup C \cup M \cup I \cup O \cup F2
                            \cup (Z \cup D) \cup {} \cup (K \cup K2) \cup T \cup R \cup X \cup N
                            \cup {}
    BY <1>4 DEF Joined
  <1>. QED  BY <1>1, <1>2, <1>5, <1>3

\* The place of a warning, its severity and its kind.
Placed(w, k) ==
    /\ SectionOf(w) = k /\ w.severity \in {"warn", "crit"}
    /\ k \in {2, 3, 5, 9, 14, 16} => w.kind \in MayBeFalse

\* A warning of a kind is about the section TriageSection gives.
LEMMA PlacedPlain ==
    ASSUME NEW kind \in DOMAIN TriageSection, NEW severity \in {"warn", "crit"}
    PROVE  Placed(Warning(kind, severity, ""), TriageSection[kind])
  <1>. DEFINE w == Warning(kind, severity, "")
  <1>1. w.kind = kind /\ w.severity = severity /\ kind # "pressure"
    BY DEF Warning, TriageSection
  <1>. HIDE DEF w
  <1>2. TriageSection[kind] \in {2, 3, 5, 9, 14, 16} => kind \in MayBeFalse
    BY DEF TriageSection, MayBeFalse
  <1>3. Placed(w, TriageSection[kind])
    BY <1>1, <1>2 DEF Placed, SectionOf
  <1>. QED  BY <1>3 DEF w

\* A warning of pressure is about the section of its resource.
LEMMA PlacedPressure ==
    /\ Placed(Warning("pressure", "warn", "cpu"), 6)
    /\ Placed(Warning("pressure", "warn", "memory"), 7)
    /\ Placed(Warning("pressure", "warn", "io"), 8)
  BY DEF Placed, Warning, SectionOf

\* What a section warns of is what is wrong, as far as the section came through.
Agrees(k, c, A, F) ==
    /\ c.section = 0 \/ k < c.section => F \subseteq A
    /\ \A w \in A : w \in F \/ (/\ w.kind \in MayBeFalse
                                /\ k = c.section \/ (k + 1 = c.section /\ c.line = 1))

\* The four ways in which a section can be left, and what each must show.
LEMMA AgreesFrom ==
    ASSUME NEW L, NEW k \in 1..18, NEW c, c.section \in 0..18, NEW ls, Left(L, k, c, ls),
           NEW A, NEW F,
           ls = L => A = F,
           ls = L \o <<Piece>> => F \subseteq A /\ \A w \in A : w \in F \/ w.kind \in MayBeFalse,
           ls = <<>> => A \subseteq F,
           \A m : Cut(L, m, ls) => \A w \in A : w \in F \/ w.kind \in MayBeFalse
    PROVE  Agrees(k, c, A, F)
  <1>1. CASE ls = L /\ (c.section = 0 \/ k < c.section)
    BY <1>1 DEF Agrees
  <1>2. CASE k + 1 = c.section /\ c.line = 1 /\ ls = L \o <<Piece>>
    BY <1>2 DEF Agrees
  <1>3. CASE k = c.section /\ Cut(L, c.line - 1, ls)
    <2>. DEFINE m == c.section
    <2>1. k \in 1..18 /\ k = m
      BY <1>3
    <2>. HIDE DEF m
    <2>2. ~(m = 0 \/ k < m)
      BY <2>1
    <2>. QED  BY <1>3, <2>2 DEF Agrees, m
  <1>4. CASE c.section # 0 /\ c.section < k /\ ls = <<>>
    <2>. DEFINE m == c.section
    <2>1. k \in 1..18 /\ m \in 0..18 /\ m # 0 /\ m < k
      BY <1>4
    <2>. HIDE DEF m
    <2>2. ~(m = 0 \/ k < m)
      BY <2>1
    <2>. QED  BY <1>4, <2>2 DEF Agrees, m
  <1>. QED  BY <1>1, <1>2, <1>3, <1>4 DEF Left

-----------------------------------------------------------------------------
(* Load and memory.                                                        *)

\* Graded and Level say the same of the same thresholds.
LEMMA GradedLevel ==
    ASSUME NEW kind, NEW w \in BOOLEAN, NEW c \in BOOLEAN, NEW v \in BOOLEAN, NEW d \in BOOLEAN,
           w <=> v, c <=> d, d => v
    PROVE  Graded(kind, w, c) = Level(kind, v, d)
  <1>1. CASE w /\ c
    BY <1>1 DEF Graded, Level
  <1>2. CASE w /\ ~c
    BY <1>2 DEF Graded, Level, If, Warn
  <1>3. CASE ~w
    BY <1>3 DEF Graded, Level, If, Warn
  <1>. QED  BY <1>1, <1>2, <1>3

\* The load, known in full, alarms exactly when it is too high.
LEMMA LoadSame ==
    ASSUME NEW h \in TriageHost, NEW f, f.load1 = h.load1, f.nproc = h.nproc
    PROVE  LoadWarnings(f) = LoadFaults(h)
  <1>. DEFINE a == h.load1
              b == h.nproc
  <1>1. a \in Reading /\ b \in Reading /\ b # 0
    BY DEF TriageHost, Reading
  <1>2. LoadWarnings(f) = Graded("high_load", a # None /\ b > 0 /\ 2 * a >= 300 * b, a >= 400 * b)
    BY DEF LoadWarnings
  <1>3. LoadFaults(h) = IF Known(a) /\ Known(b)
                        THEN Level("high_load", a \div b >= 150, a \div b >= 400) ELSE {}
    BY DEF LoadFaults
  <1>. HIDE DEF a, b
  <1>4. CASE a = None \/ b = None
    <2>1. ~(a # None /\ b > 0 /\ 2 * a >= 300 * b)
      BY <1>4 DEF None
    <2>2. ~(Known(a) /\ Known(b))
      BY <1>4 DEF Known
    <2>. QED  BY <1>2, <1>3, <2>1, <2>2 DEF Graded
  <1>5. CASE a # None /\ b # None
    <2>1. a \in Nat /\ b \in Nat \ {0} /\ Known(a) /\ Known(b)
      BY <1>1, <1>5 DEF Reading, Known
    <2>2. (a \div b >= 150 <=> a >= 150 * b) /\ (a \div b >= 400 <=> a >= 400 * b)
      BY <2>1, Quotient
    <2>. DEFINE q == a \div b
    <2>3. (q >= 150 <=> 2 * a >= 300 * b) /\ (q >= 400 <=> a >= 400 * b)
          /\ (a >= 400 * b => 2 * a >= 300 * b) /\ b > 0
      BY <2>1, <2>2
    <2>4. LoadFaults(h) = Level("high_load", q >= 150, q >= 400)
      BY <1>3, <2>1
    <2>5. q \in Int
      BY <2>1
    <2>. HIDE DEF q
    <2>. DEFINE w == a # None /\ b > 0 /\ 2 * a >= 300 * b
                c == a >= 400 * b
                v == q >= 150
                d == q >= 400
    <2>6. (w <=> v) /\ (c <=> d) /\ (d => v)
      BY <1>5, <2>3
    <2>7. w \in BOOLEAN /\ c \in BOOLEAN /\ v \in BOOLEAN /\ d \in BOOLEAN
      BY <2>1, <2>5
    <2>8. LoadWarnings(f) = Graded("high_load", w, c) /\ LoadFaults(h) = Level("high_load", v, d)
      BY <1>2, <2>4
    <2>. HIDE DEF w, c, v, d
    <2>9. Graded("high_load", w, c) = Level("high_load", v, d)
      BY <2>6, <2>7, GradedLevel
    <2>. QED  BY <2>8, <2>9
  <1>. QED  BY <1>4, <1>5

\* Memory and swap, known in full, alarm exactly when they are short.
LEMMA MemorySame ==
    ASSUME NEW h \in TriageHost, NEW f,
           f.memTotal = h.memTotal, f.memAvailable = h.memAvailable,
           f.swapTotal = h.swapTotal, f.swapFree = h.swapFree
    PROVE  MemoryWarnings(f) = MemoryFaults(h)
  <1>. DEFINE t == h.memTotal
              a == h.memAvailable
              st == h.swapTotal
              sf == h.swapFree
              W1 == Graded("low_memory", t > 0 /\ a # None /\ 10 * a < t, 20 * a < t)
              W2 == If(st > 0 /\ sf # None /\ 2 * (st - sf) > st, "swap_pressure")
              F1 == IF Known(t) /\ Known(a)
                    THEN Level("low_memory", Share(a, t) < 100, Share(a, t) < 50) ELSE {}
              F2 == IF st > 0 /\ Known(sf)
                    THEN If(Share(sf, st) < 500, "swap_pressure") ELSE {}
  <1>1. t \in Reading /\ t # 0 /\ a \in Reading /\ st \in Reading /\ sf \in Reading
    BY DEF TriageHost, Reading
  <1>2. MemoryWarnings(f) = W1 \cup W2
    BY DEF MemoryWarnings
  <1>3. MemoryFaults(h) = F1 \cup F2
    BY DEF MemoryFaults
  <1>. HIDE DEF t, a, st, sf
  <1>4. W1 = F1
    <2>1. CASE t = None \/ a = None
      <3>1. ~(t > 0 /\ a # None /\ 10 * a < t)
        BY <2>1 DEF None
      <3>2. ~(Known(t) /\ Known(a))
        BY <2>1 DEF Known
      <3>. QED  BY <3>1, <3>2 DEF Graded
    <2>2. CASE t # None /\ a # None
      <3>1. t \in Nat \ {0} /\ a \in Nat /\ Known(t) /\ Known(a)
        BY <1>1, <2>2 DEF Reading, Known
      <3>. DEFINE x == 1000 * a
                  q == x \div t
      <3>2. x \in Nat
        BY <3>1
      <3>3. (x \div t >= 100 <=> x >= 100 * t) /\ (x \div t >= 50 <=> x >= 50 * t)
        <4>. HIDE DEF x
        <4>. QED  BY <3>1, <3>2, Quotient
      <3>4. q \in Int
        <4>. HIDE DEF x
        <4>. QED  BY <3>1, <3>2
      <3>5. Share(a, t) = q
        BY DEF Share
      <3>6. (q < 100 <=> 10 * a < t) /\ (q < 50 <=> 20 * a < t) /\ (20 * a < t => 10 * a < t)
        <4>1. (q >= 100 <=> 1000 * a >= 100 * t) /\ (q >= 50 <=> 1000 * a >= 50 * t)
          BY <3>3
        <4>. HIDE DEF q
        <4>. QED  BY <3>1, <3>4, <4>1
      <3>. HIDE DEF x, q
      <3>. DEFINE w == t > 0 /\ a # None /\ 10 * a < t
                  c == 20 * a < t
                  v == q < 100
                  d == q < 50
      <3>7. (w <=> v) /\ (c <=> d) /\ (d => v)
        BY <2>2, <3>1, <3>6
      <3>8. w \in BOOLEAN /\ c \in BOOLEAN /\ v \in BOOLEAN /\ d \in BOOLEAN
        BY <3>1, <3>4
      <3>9. W1 = Graded("low_memory", w, c) /\ F1 = Level("low_memory", v, d)
        BY <3>1, <3>5
      <3>. HIDE DEF w, c, v, d, W1, F1
      <3>10. Graded("low_memory", w, c) = Level("low_memory", v, d)
        BY <3>7, <3>8, GradedLevel
      <3>. QED  BY <3>9, <3>10
    <2>. QED  BY <2>1, <2>2
  <1>5. W2 = F2
    <2>1. CASE sf = None \/ ~(st > 0)
      BY <2>1 DEF Known, If
    <2>2. CASE sf # None /\ st > 0
      <3>1. st \in Nat \ {0} /\ sf \in Nat /\ Known(sf)
        BY <1>1, <2>2 DEF Reading, Known, None
      <3>. DEFINE x == 1000 * sf
                  q == x \div st
      <3>2. x \in Nat
        BY <3>1
      <3>3. x \div st >= 500 <=> x >= 500 * st
        <4>. HIDE DEF x
        <4>. QED  BY <3>1, <3>2, Quotient
      <3>4. q \in Int
        <4>. HIDE DEF x
        <4>. QED  BY <3>1, <3>2
      <3>5. Share(sf, st) = q
        BY DEF Share
      <3>6. q < 500 <=> 2 * (st - sf) > st
        <4>1. q >= 500 <=> 1000 * sf >= 500 * st
          BY <3>3
        <4>. HIDE DEF q
        <4>. QED  BY <3>1, <3>4, <4>1
      <3>. HIDE DEF x, q
      <3>. QED  BY <2>2, <3>1, <3>5, <3>6 DEF If
    <2>. QED  BY <2>1, <2>2
  <1>. HIDE DEF W1, W2, F1, F2
  <1>. QED  BY <1>2, <1>3, <1>4, <1>5

\* The connections, known in full, alarm exactly when the table is nearly full.
LEMMA ConntrackSame ==
    ASSUME NEW h \in TriageHost, NEW f,
           f.count = IF h.count # None /\ h.max # None THEN h.count ELSE None,
           f.max = IF h.count # None /\ h.max # None THEN h.max ELSE None
    PROVE  ConntrackWarnings(f) = ConntrackFaults(h)
  <1>. DEFINE a == h.count
              b == h.max
  <1>1. a \in Reading /\ b \in Reading
    BY DEF TriageHost
  <1>2. ConntrackWarnings(f) =
          Graded("conntrack_full", f.count # None /\ f.max > 0 /\ 10 * f.count >= 9 * f.max,
                 20 * f.count >= 19 * f.max)
    BY DEF ConntrackWarnings
  <1>3. ConntrackFaults(h) = IF Known(a) /\ b > 0
                             THEN Level("conntrack_full", Share(a, b) >= 900, Share(a, b) >= 950)
                             ELSE {}
    BY DEF ConntrackFaults
  <1>. HIDE DEF a, b
  <1>4. CASE a = None \/ b = None \/ b = 0
    <2>1. ~(f.count # None /\ f.max > 0 /\ 10 * f.count >= 9 * f.max)
      BY <1>4 DEF None, a, b
    <2>2. ~(Known(a) /\ b > 0)
      BY <1>4 DEF Known, None
    <2>3. ConntrackFaults(h) = {}
      BY <1>3, <2>2
    <2>. DEFINE w == f.count # None /\ f.max > 0 /\ 10 * f.count >= 9 * f.max
                x == 20 * f.count >= 19 * f.max
    <2>4. ConntrackWarnings(f) = Graded("conntrack_full", w, x) /\ ~w
      BY <1>2, <2>1
    <2>. HIDE DEF w, x
    <2>5. ConntrackWarnings(f) = {}
      BY <2>4 DEF Graded
    <2>. QED  BY <2>3, <2>5
  <1>5. CASE ~(a = None \/ b = None \/ b = 0)
    <2>1. a \in Nat /\ b \in Nat \ {0} /\ Known(a) /\ b > 0
      BY <1>1, <1>5 DEF Reading, Known
    <2>2. f.count = a /\ f.max = b
      BY <1>5 DEF a, b
    <2>. DEFINE x == 1000 * a
                q == x \div b
    <2>3. x \in Nat
      BY <2>1
    <2>4. (x \div b >= 900 <=> x >= 900 * b) /\ (x \div b >= 950 <=> x >= 950 * b)
      <3>. HIDE DEF x
      <3>. QED  BY <2>1, <2>3, Quotient
    <2>5. Share(a, b) = q
      BY DEF Share
    <2>6. (q >= 900 <=> 10 * a >= 9 * b) /\ (q >= 950 <=> 20 * a >= 19 * b)
          /\ (20 * a >= 19 * b => 10 * a >= 9 * b)
      <3>1. (q >= 900 <=> 1000 * a >= 900 * b) /\ (q >= 950 <=> 1000 * a >= 950 * b)
        BY <2>4
      <3>. HIDE DEF q
      <3>. QED  BY <2>1, <3>1
    <2>. HIDE DEF x, q
    <2>7. ConntrackFaults(h) = Level("conntrack_full", q >= 900, q >= 950)
      BY <1>3, <2>1, <2>5
    <2>8. ConntrackWarnings(f) =
            Graded("conntrack_full", a # None /\ b > 0 /\ 10 * a >= 9 * b, 20 * a >= 19 * b)
      BY <1>2, <2>2
    <2>. DEFINE w == a # None /\ b > 0 /\ 10 * a >= 9 * b
                c == 20 * a >= 19 * b
                v == q >= 900
                d == q >= 950
    <2>9. (w <=> v) /\ (c <=> d) /\ (d => v)
      BY <1>5, <2>1, <2>6
    <2>10. w \in BOOLEAN /\ c \in BOOLEAN /\ v \in BOOLEAN /\ d \in BOOLEAN
      OBVIOUS
    <2>. HIDE DEF w, c, v, d
    <2>11. Graded("conntrack_full", w, c) = Level("conntrack_full", v, d)
      BY <2>9, <2>10, GradedLevel
    <2>. QED  BY <2>7, <2>8, <2>11 DEF w, c, v, d
  <1>. QED  BY <1>4, <1>5

-----------------------------------------------------------------------------
(* What is read of a section that was cut off.                             *)

\* A kind of line that no cut makes is a line that was printed.
LEMMA CutPlain ==
    ASSUME NEW l \in Printed, NEW x \in CutLines(l),
           x.is \notin Changed
    PROVE  x = l /\ l.is \notin {"yes", "no"}
  <1>1. Piece.is = "piece" /\ Blocks.is = "blocks" /\ Line("has not", l.n).is = "has not"
    BY DEF Piece, Blocks, Line
  <1>2. x # Piece /\ x # Blocks /\ x # Line("has not", l.n)
    BY <1>1 DEF Changed
  <1>3. ASSUME l.is \in Resized, NEW k \in Nat, x = Line(l.is, k) PROVE FALSE
    <2>1. x.is = l.is
      BY <1>3 DEF Line
    <2>. QED  BY <1>3, <2>1 DEF Changed
  <1>. QED  BY <1>2, <1>3, CutKinds

\* A number with decimals that was read is at most the one printed.
LEMMA CutCents ==
    ASSUME NEW l \in Printed, NEW x \in CutLines(l), x.is \in Cents
    PROVE  x.is = l.is /\ x.n \in Nat /\ x.n <= l.n
  <1>1. x \in Printed /\ l.n \in Nat
    BY CutTyped, LineNumbered DEF Printed
  <1>2. x.n \in Nat
    BY <1>1, LineNumbered DEF Printed
  <1>3. x.is \notin {"piece", "blocks", "has not"}
    BY DEF Cents
  <1>4. Piece.is = "piece" /\ Blocks.is = "blocks" /\ Line("has not", l.n).is = "has not"
    BY DEF Piece, Blocks, Line
  <1>5. x # Piece /\ x # Blocks /\ x # Line("has not", l.n)
    BY <1>3, <1>4
  <1>6. CASE x = l
    BY <1>1, <1>2, <1>6
  <1>7. ASSUME NEW k \in Nat, x = Line(l.is, k), l.is \in Cents => k <= l.n
        PROVE  x.is = l.is /\ x.n <= l.n
    BY <1>7 DEF Line
  <1>. QED  BY <1>2, <1>5, <1>6, <1>7, CutKinds

\* In a section that was cut, such a line is at the place it was printed at.
LEMMA CutPlainAt ==
    ASSUME NEW L \in Seq(Printed), NEW m, NEW ls, Cut(L, m, ls)
    PROVE  \A i \in 1..Len(ls) :
              ls[i].is \notin Changed =>
                i \in 1..Len(L) /\ ls[i] = L[i]
  <1>1. ls \in Seq(Printed)
    BY DEF Cut
  <1>2. Len(ls) <= Len(L) /\ \A i \in 1..Len(ls) : ls[i] = L[i] \/ ls[i] \in CutLines(L[i])
    BY DEF Cut
  <1>3. Len(ls) \in Nat
    BY <1>1
  <1>4. Len(L) \in Nat
    OBVIOUS
  <1>5. ASSUME NEW i \in 1..Len(ls), ls[i].is \notin Changed
        PROVE  i \in 1..Len(L) /\ ls[i] = L[i]
    <2>1. i \in 1..Len(L)
      BY <1>2, <1>3, <1>4
    <2>2. L[i] \in Printed
      BY <2>1
    <2>. QED  BY <1>2, <1>5, <2>1, <2>2, CutPlain
  <1>. QED  BY <1>5
\* Of a kind measured in hundredths, no more than was said.
LEMMA CutFirst ==
    ASSUME NEW L \in Seq(Printed), NEW m, NEW ls, Cut(L, m, ls), NEW is \in Cents, NEW n,
           \A i \in 1..Len(L) : L[i].is = is => n \in Nat /\ L[i].n = n,
           FirstIn(ls, is) # None
    PROVE  n \in Nat /\ FirstIn(ls, is) \in Nat /\ FirstIn(ls, is) <= n
  <1>1. ls \in Seq(LineType)
    <2>1. Printed \subseteq LineType /\ ls \in Seq(Printed)
      BY DEF Printed, Cut
    <2>. QED  BY <2>1, Widened
  <1>2. Len(ls) \in Nat /\ Len(L) \in Nat
    BY <1>1
  <1>3. HasIn(ls, is)
    BY <1>1, FirstKnown
  <1>4. PICK i \in 1..Len(ls) : ls[i].is = is /\ FirstIn(ls, is) = ls[i].n
    BY <1>2, <1>3, LeastOfKind
  <1>5. /\ Len(ls) <= Len(L)
        /\ ls[i] = L[i] \/ ls[i] \in CutLines(L[i])
    BY DEF Cut
  <1>6. i \in 1..Len(L)
    BY <1>2, <1>5
  <1>7. L[i] \in Printed
    BY <1>6
  <1>8. CASE ls[i] = L[i]
    BY <1>4, <1>6, <1>8
  <1>9. CASE ls[i] \in CutLines(L[i])
    <2>1. ls[i].is = L[i].is /\ ls[i].n \in Nat /\ ls[i].n <= L[i].n
      BY <1>4, <1>7, <1>9, CutCents
    <2>. QED  BY <1>4, <1>6, <2>1
  <1>. QED  BY <1>5, <1>8, <1>9

\* A section with a piece of the next marker after it.
LEMMA PieceAfter ==
    ASSUME NEW L \in Seq(Printed)
    PROVE  /\ L \o <<Piece>> \in Seq(Printed) /\ Len(L \o <<Piece>>) = Len(L) + 1
           /\ \A i \in 1..Len(L) : (L \o <<Piece>>)[i] = L[i]
           /\ (L \o <<Piece>>)[Len(L) + 1].is = "piece"
  <1>. DEFINE p == <<Piece>>
  <1>1. p \in Seq(Printed) /\ Len(p) = 1 /\ p[1] = Piece
    BY PieceTyped
  <1>. HIDE DEF p
  <1>2. /\ L \o p \in Seq(Printed) /\ Len(L \o p) = Len(L) + Len(p)
        /\ \A i \in 1..(Len(L) + Len(p)) : (L \o p)[i] = IF i <= Len(L) THEN L[i] ELSE p[i - Len(L)]
    BY <1>1, ConcatProperties
  <1>3. Len(L) \in Nat
    OBVIOUS
  <1>4. \A i \in 1..Len(L) : (L \o p)[i] = L[i]
    BY <1>1, <1>2, <1>3
  <1>5. (L \o p)[Len(L) + 1] = Piece
    <2>. DEFINE i == Len(L) + 1
    <2>1. i \in 1..(Len(L) + Len(p)) /\ ~(i <= Len(L)) /\ i - Len(L) = 1
      BY <1>1, <1>3
    <2>. HIDE DEF i
    <2>2. (L \o p)[i] = p[1]
      BY <1>2, <2>1
    <2>. QED  BY <1>1, <2>2 DEF i
  <1>6. Piece.is = "piece"
    BY DEF Piece, Line
  <1>. QED  BY <1>1, <1>2, <1>4, <1>5, <1>6 DEF p

\* A section printed to its end has its lines at their places.
LEMMA EntireAt ==
    ASSUME NEW L \in Seq(Printed), NEW ls, Entire(L, ls)
    PROVE  /\ Len(ls) \in Nat /\ Len(L) \in Nat /\ Len(ls) >= Len(L)
           /\ \A i \in 1..Len(L) : i \in 1..Len(ls) /\ ls[i] = L[i]
           /\ \A i \in 1..Len(ls) : ls[i].is # "piece" => i \in 1..Len(L) /\ ls[i] = L[i]
  <1>1. Len(L) \in Nat
    OBVIOUS
  <1>2. CASE ls = L
    BY <1>1, <1>2
  <1>3. CASE ls = L \o <<Piece>>
    <2>1. /\ Len(ls) = Len(L) + 1 /\ \A i \in 1..Len(L) : ls[i] = L[i]
          /\ ls[Len(L) + 1].is = "piece"
      BY <1>3, PieceAfter
    <2>. QED  BY <1>1, <2>1
  <1>. QED  BY <1>2, <1>3 DEF Entire

-----------------------------------------------------------------------------
(* Tables.                                                                 *)

\* The rows of a table are the percentages it shows.
LEMMA TableLines ==
    ASSUME NEW pcts \in Seq(Nat), NEW L, L = Table(pcts)
    PROVE  /\ \A i \in 1..Len(L) : L[i].is = "row" =>
                1 < i /\ i - 1 \in DOMAIN pcts /\ L[i].n = pcts[i - 1]
           /\ \A j \in DOMAIN pcts : j + 1 \in 1..Len(L) /\ L[j + 1] = Line("row", pcts[j])
  <1>1. CASE pcts = <<>>
    <2>1. L = <<>>
      BY <1>1 DEF Table
    <2>. QED  BY <1>1, <2>1
  <1>2. CASE pcts # <<>>
    <2>. DEFINE rows == [i \in DOMAIN pcts |-> Line("row", pcts[i])]
                a == <<Piece>>
    <2>1. Len(pcts) \in Nat /\ DOMAIN pcts = 1..Len(pcts)
      OBVIOUS
    <2>2. rows \in Seq(Printed) /\ Len(rows) = Len(pcts)
          /\ \A i \in 1..Len(pcts) : rows[i] = Line("row", pcts[i])
      <3>1. \A i \in DOMAIN pcts : Line("row", pcts[i]) \in Printed
        <4>1. "row" \in Words
          BY DEF Words
        <4>. QED  BY <4>1, LineTyped
      <3>. QED  BY <2>1, <3>1
    <2>3. a \in Seq(Printed) /\ Len(a) = 1 /\ a[1] = Piece
      BY PieceTyped
    <2>4. L = a \o rows
      BY <1>2 DEF Table
    <2>5. a \in Seq(Printed) /\ rows \in Seq(Printed)
      BY <2>2, <2>3
    <2>. HIDE DEF rows, a
    <2>6. /\ Len(a \o rows) = Len(a) + Len(rows)
          /\ \A i \in 1..(Len(a) + Len(rows)) :
               (a \o rows)[i] = IF i <= Len(a) THEN a[i] ELSE rows[i - Len(a)]
      BY <2>5, ConcatProperties
    <2>7. /\ Len(L) = Len(a) + Len(rows)
          /\ \A i \in 1..(Len(a) + Len(rows)) : L[i] = IF i <= Len(a) THEN a[i] ELSE rows[i - Len(a)]
      BY <2>4, <2>6
    <2>8. Len(L) = Len(pcts) + 1 /\ L[1] = Piece
      <3>1. 1 \in 1..(Len(a) + Len(rows)) /\ 1 <= Len(a)
        BY <2>1, <2>2, <2>3
      <3>. QED  BY <2>1, <2>2, <2>3, <2>7, <3>1
    <2>9. ASSUME NEW j \in 1..Len(pcts) PROVE j + 1 \in 1..Len(L) /\ L[j + 1] = Line("row", pcts[j])
      <3>1. j + 1 \in 1..(Len(a) + Len(rows)) /\ ~(j + 1 <= Len(a)) /\ (j + 1) - Len(a) = j
        BY <2>1, <2>2, <2>3
      <3>2. L[j + 1] = rows[j]
        BY <2>7, <3>1
      <3>. QED  BY <2>1, <2>2, <2>8, <3>2
    <2>10. ASSUME NEW i \in 1..Len(L), L[i].is = "row"
           PROVE  1 < i /\ i - 1 \in DOMAIN pcts /\ L[i].n = pcts[i - 1]
      <3>1. i # 1
        BY <2>8, <2>10 DEF Piece, Line
      <3>. DEFINE j == i - 1
      <3>2. j \in 1..Len(pcts) /\ j + 1 = i /\ 1 < i
        BY <2>1, <2>8, <3>1
      <3>. HIDE DEF j
      <3>3. L[i] = Line("row", pcts[j])
        BY <2>9, <3>2
      <3>4. L[i].n = pcts[j]
        BY <3>3 DEF Line
      <3>. QED  BY <2>1, <3>2, <3>4 DEF j
    <2>. QED  BY <2>1, <2>9, <2>10
  <1>. QED  BY <1>1, <1>2

\* The percentages read are those printed, or some of them.
LEMMA TableRead ==
    ASSUME NEW pcts \in Seq(Nat), NEW ls
    PROVE  /\ Entire(Table(pcts), ls) => PercentsIn(ls) = {pcts[i] : i \in DOMAIN pcts}
           /\ \A m : Cut(Table(pcts), m, ls) => PercentsIn(ls) \subseteq {pcts[i] : i \in DOMAIN pcts}
  <1>. DEFINE L == Table(pcts)
              S == {pcts[i] : i \in DOMAIN pcts}
  <1>1. /\ L \in Seq(Printed)
        /\ \A i \in 1..Len(L) : L[i].is = "row" =>
             1 < i /\ i - 1 \in DOMAIN pcts /\ L[i].n = pcts[i - 1]
        /\ \A j \in DOMAIN pcts : j + 1 \in 1..Len(L) /\ L[j + 1] = Line("row", pcts[j])
    BY TableTyped, TableLines
  <1>2. DOMAIN pcts \subseteq Nat \ {0}
    OBVIOUS
  <1>. HIDE DEF L
  <1>3. ASSUME \A i \in 1..Len(ls) : ls[i].is = "row" => i \in 1..Len(L) /\ ls[i] = L[i]
        PROVE  PercentsIn(ls) \subseteq S
    <2>. SUFFICES ASSUME NEW i \in 1..Len(ls), ls[i].is = "row" PROVE ls[i].n \in S
      BY DEF PercentsIn
    <2>1. i \in 1..Len(L) /\ ls[i] = L[i] /\ L[i].is = "row"
      BY <1>3
    <2>2. i - 1 \in DOMAIN pcts /\ L[i].n = pcts[i - 1]
      BY <1>1, <2>1
    <2>. QED  BY <2>1, <2>2
  <1>4. ASSUME Entire(L, ls) PROVE PercentsIn(ls) = S
    <2>1. /\ \A i \in 1..Len(L) : i \in 1..Len(ls) /\ ls[i] = L[i]
          /\ \A i \in 1..Len(ls) : ls[i].is = "row" => i \in 1..Len(L) /\ ls[i] = L[i]
      <3>1. L \in Seq(Printed)
        BY <1>1
      <3>2. /\ \A i \in 1..Len(L) : i \in 1..Len(ls) /\ ls[i] = L[i]
            /\ \A i \in 1..Len(ls) : ls[i].is # "piece" => i \in 1..Len(L) /\ ls[i] = L[i]
        BY <1>4, <3>1, EntireAt
      <3>. QED  BY <3>2
    <2>2. PercentsIn(ls) \subseteq S
      BY <1>3, <2>1
    <2>3. ASSUME NEW j \in DOMAIN pcts PROVE pcts[j] \in PercentsIn(ls)
      <3>1. j + 1 \in 1..Len(ls) /\ ls[j + 1] = Line("row", pcts[j]) /\ 1 < j + 1
        BY <1>1, <1>2, <2>1
      <3>2. ls[j + 1].is = "row" /\ ls[j + 1].n = pcts[j]
        BY <3>1 DEF Line
      <3>. QED  BY <3>1, <3>2 DEF PercentsIn
    <2>. QED  BY <2>2, <2>3
  <1>5. ASSUME NEW m, Cut(L, m, ls) PROVE PercentsIn(ls) \subseteq S
    <2>1. "row" \notin Changed
      BY DEF Changed, Resized, Counts, Cents, NameKinds
    <2>2. L \in Seq(Printed)
      BY <1>1
    <2>3. \A i \in 1..Len(ls) : ls[i].is \notin Changed =>
                               i \in 1..Len(L) /\ ls[i] = L[i]
      BY <1>5, <2>2, CutPlainAt
    <2>4. \A i \in 1..Len(ls) : ls[i].is = "row" => i \in 1..Len(L) /\ ls[i] = L[i]
      BY <2>1, <2>3
    <2>. QED  BY <1>3, <2>4
  <1>. QED  BY <1>4, <1>5 DEF L

\* Percentages that are all there alarm as they should, and fewer of them alarm less.
LEMMA FullSome ==
    ASSUME NEW kind, NEW pcts \in Seq(Nat), NEW S
    PROVE  /\ S = {pcts[i] : i \in DOMAIN pcts} => Full(kind, S) = FullFaults(kind, pcts)
           /\ S \subseteq {pcts[i] : i \in DOMAIN pcts} => Full(kind, S) \subseteq FullFaults(kind, pcts)
  <1>. DEFINE G(p) == Graded(kind, p >= 90, p >= 95)
              V(p) == Level(kind, p >= 90, p >= 95)
  <1>1. ASSUME NEW p \in Nat PROVE G(p) = V(p)
    <2>. DEFINE w == p >= 90
                c == p >= 95
    <2>1. w \in BOOLEAN /\ c \in BOOLEAN /\ (c => w)
      OBVIOUS
    <2>. HIDE DEF w, c
    <2>2. Graded(kind, w, c) = Level(kind, w, c)
      BY <2>1, GradedLevel
    <2>. QED  BY <2>2 DEF w, c
  <1>2. Full(kind, S) = UNION {G(p) : p \in S}
    BY DEF Full
  <1>3. FullFaults(kind, pcts) = UNION {V(pcts[i]) : i \in DOMAIN pcts}
    BY DEF FullFaults
  <1>4. \A i \in DOMAIN pcts : pcts[i] \in Nat
    OBVIOUS
  <1>. HIDE DEF G, V
  <1>5. \A i \in DOMAIN pcts : G(pcts[i]) = V(pcts[i])
    BY <1>1, <1>4
  <1>6. ASSUME S \subseteq {pcts[i] : i \in DOMAIN pcts}
        PROVE  Full(kind, S) \subseteq FullFaults(kind, pcts)
    <2>. SUFFICES ASSUME NEW p \in S, NEW w \in G(p) PROVE \E i \in DOMAIN pcts : w \in V(pcts[i])
      BY <1>2, <1>3
    <2>1. PICK i \in DOMAIN pcts : p = pcts[i]
      BY <1>6
    <2>. QED  BY <1>5, <2>1
  <1>7. ASSUME {pcts[i] : i \in DOMAIN pcts} \subseteq S
        PROVE  FullFaults(kind, pcts) \subseteq Full(kind, S)
    <2>. SUFFICES ASSUME NEW i \in DOMAIN pcts, NEW w \in V(pcts[i]) PROVE \E p \in S : w \in G(p)
      BY <1>2, <1>3
    <2>1. pcts[i] \in S /\ w \in G(pcts[i])
      BY <1>5, <1>7
    <2>. QED  BY <2>1
  <1>8. ASSUME S = {pcts[i] : i \in DOMAIN pcts} PROVE Full(kind, S) = FullFaults(kind, pcts)
    <2>1. Full(kind, S) \subseteq FullFaults(kind, pcts)
      BY <1>6, <1>8
    <2>2. FullFaults(kind, pcts) \subseteq Full(kind, S)
      BY <1>7, <1>8
    <2>. QED  BY <2>1, <2>2
  <1>. QED  BY <1>6, <1>8

\* df and df -i: sections 4 and 10.
LEMMA SectionTable ==
    ASSUME NEW kind, NEW pcts \in Seq(Nat), NEW k \in 1..18, NEW c, c.section \in 0..18, NEW ls,
           Left(Table(pcts), k, c, ls)
    PROVE  Agrees(k, c, Full(kind, PercentsIn(ls)), FullFaults(kind, pcts))
  <1>. DEFINE L == Table(pcts)
              A == Full(kind, PercentsIn(ls))
              F == FullFaults(kind, pcts)
  <1>1. Entire(L, ls) => A = F
    BY TableRead, FullSome
  <1>2. \A m : Cut(L, m, ls) => A \subseteq F
    BY TableRead, FullSome
  <1>3. ls = <<>> => A \subseteq F
    BY <1>2, TableTyped, CutBefore
  <1>4. (ls = L => A = F) /\ (ls = L \o <<Piece>> => A = F)
    BY <1>1 DEF Entire
  <1>5. Left(L, k, c, ls)
    OBVIOUS
  <1>. HIDE DEF A, F, L
  <1>6. Agrees(k, c, A, F)
    BY <1>2, <1>3, <1>4, <1>5, AgreesFrom
  <1>. QED  BY <1>6 DEF A, F

-----------------------------------------------------------------------------
(* Where the warnings belong.                                              *)

OfSort(kind) == {Warning(kind, "warn", ""), Warning(kind, "crit", "")}

\* A warning of a sort is placed in the section of its kind.
LEMMA SortPlaced ==
    ASSUME NEW kind \in DOMAIN TriageSection, NEW w \in OfSort(kind)
    PROVE  Placed(w, TriageSection[kind])
  BY PlacedPlain DEF OfSort

\* Warnings of pressure are placed by their resource.
LEMMA PressurePlaced ==
    ASSUME NEW n
    PROVE  /\ \A w \in Pressure("cpu", n) : Placed(w, 6)
           /\ \A w \in Pressure("memory", n) : Placed(w, 7)
           /\ \A w \in Pressure("io", n) : Placed(w, 8)
  BY PlacedPressure DEF Pressure

\* Sets of warnings, each in its section.
PlacedAll(q) == \A k \in 1..18 : \A w \in q[k] : Placed(w, k)

\* Each section with warnings of its own sort is placed.
LEMMA PlacedSorts ==
    ASSUME NEW q, q[1] = {}, q[12] = {}, q[18] = {},
           q[2] \subseteq OfSort("high_load"),
           q[3] \subseteq OfSort("low_memory") \cup OfSort("swap_pressure"),
           q[4] \subseteq OfSort("disk_full"), q[5] \subseteq OfSort("failed_units"),
           \A w \in q[6] : Placed(w, 6), \A w \in q[7] : Placed(w, 7),
           \A w \in q[8] : Placed(w, 8),
           q[9] \subseteq OfSort("oom_recent"), q[10] \subseteq OfSort("inodes_full"),
           q[11] \subseteq OfSort("zombie_procs") \cup OfSort("stuck_procs"),
           q[13] \subseteq OfSort("clock_skew") \cup OfSort("clock_unsynced"),
           q[14] \subseteq OfSort("conntrack_full"), q[15] \subseteq OfSort("reboot_required"),
           q[16] \subseteq OfSort("kernel_tainted"), q[17] \subseteq OfSort("nic_errors")
    PROVE  PlacedAll(q)
  <1>1. \A kind \in DOMAIN TriageSection : \A w \in OfSort(kind) : Placed(w, TriageSection[kind])
    BY SortPlaced
  <1>2. \A w : /\ w \in OfSort("high_load") => Placed(w, 2)
               /\ w \in OfSort("low_memory") \cup OfSort("swap_pressure") => Placed(w, 3)
               /\ w \in OfSort("disk_full") => Placed(w, 4)
               /\ w \in OfSort("failed_units") => Placed(w, 5)
               /\ w \in OfSort("oom_recent") => Placed(w, 9)
               /\ w \in OfSort("inodes_full") => Placed(w, 10)
               /\ w \in OfSort("zombie_procs") \cup OfSort("stuck_procs") => Placed(w, 11)
               /\ w \in OfSort("clock_skew") \cup OfSort("clock_unsynced") => Placed(w, 13)
               /\ w \in OfSort("conntrack_full") => Placed(w, 14)
               /\ w \in OfSort("reboot_required") => Placed(w, 15)
               /\ w \in OfSort("kernel_tainted") => Placed(w, 16)
               /\ w \in OfSort("nic_errors") => Placed(w, 17)
    BY <1>1 DEF TriageSection
  <1>. SUFFICES ASSUME NEW k \in 1..18, NEW w \in q[k] PROVE Placed(w, k)
    BY DEF PlacedAll
  <1>3. CASE k \in {1, 12, 18}
    BY <1>3
  <1>4. CASE k \in 2..11
    BY <1>2, <1>4
  <1>5. CASE k \in 13..17
    BY <1>2, <1>5
  <1>. QED  BY <1>3, <1>4, <1>5

\* What a threshold or a condition gives rise to is of its kind.
LEMMA OfItsSort ==
    ASSUME NEW kind, NEW w, NEW c
    PROVE  /\ Level(kind, w, c) \subseteq OfSort(kind) /\ Graded(kind, w, c) \subseteq OfSort(kind)
           /\ If(w, kind) \subseteq OfSort(kind)
  <1>1. Level(kind, w, c) \subseteq OfSort(kind)
    BY DEF Level, OfSort, If, Warn
  <1>2. Graded(kind, w, c) \subseteq OfSort(kind)
    BY DEF Graded, OfSort
  <1>3. If(w, kind) \subseteq OfSort(kind)
    BY DEF If, Warn, OfSort
  <1>. QED  BY <1>1, <1>2, <1>3

\* The warnings the tool gives are placed.
LEMMA AlarmsPlaced ==
    ASSUME NEW f
    PROVE  PlacedAll(Alarms(f))
  <1>. DEFINE q == Alarms(f)
  <1>1. q[1] = {} /\ q[12] = {} /\ q[18] = {}
    BY DEF Alarms
  <1>2. q[2] \subseteq OfSort("high_load") /\ q[14] \subseteq OfSort("conntrack_full")
    BY OfItsSort DEF Alarms, LoadWarnings, ConntrackWarnings
  <1>3. q[3] \subseteq OfSort("low_memory") \cup OfSort("swap_pressure")
    <2>1. MemoryWarnings(f) \subseteq OfSort("low_memory") \cup OfSort("swap_pressure")
      BY OfItsSort DEF MemoryWarnings
    <2>. QED  BY <2>1 DEF Alarms
  <1>4. q[4] \subseteq OfSort("disk_full") /\ q[10] \subseteq OfSort("inodes_full")
    BY OfItsSort DEF Alarms, Full
  <1>5. /\ q[5] \subseteq OfSort("failed_units") /\ q[15] \subseteq OfSort("reboot_required")
        /\ q[16] \subseteq OfSort("kernel_tainted") /\ q[17] \subseteq OfSort("nic_errors")
        /\ q[9] \subseteq OfSort("oom_recent")
    BY DEF Alarms, If, Warn, OfSort, OomAlarm
  <1>6. /\ q[11] \subseteq OfSort("zombie_procs") \cup OfSort("stuck_procs")
        /\ q[13] \subseteq OfSort("clock_skew") \cup OfSort("clock_unsynced")
    BY DEF Alarms, ClockWarnings, If, Warn, OfSort
  <1>7. /\ \A w \in q[6] : Placed(w, 6)
        /\ \A w \in q[7] : Placed(w, 7)
        /\ \A w \in q[8] : Placed(w, 8)
    BY PressurePlaced DEF Alarms
  <1>. HIDE DEF q
  <1>8. PlacedAll(q)
    BY <1>1, <1>2, <1>3, <1>4, <1>5, <1>6, <1>7, PlacedSorts
  <1>. QED  BY <1>8 DEF q

\* The troubles of the host are placed.
LEMMA FaultsPlaced ==
    ASSUME NEW h
    PROVE  PlacedAll(Faults(h))
  <1>. DEFINE q == Faults(h)
  <1>1. q[1] = {} /\ q[12] = {} /\ q[18] = {}
    BY DEF Faults
  <1>2. q[2] \subseteq OfSort("high_load") /\ q[14] \subseteq OfSort("conntrack_full")
    <2>1. LoadFaults(h) \subseteq OfSort("high_load")
      BY OfItsSort DEF LoadFaults
    <2>2. ConntrackFaults(h) \subseteq OfSort("conntrack_full")
      BY OfItsSort DEF ConntrackFaults
    <2>. QED  BY <2>1, <2>2 DEF Faults
  <1>3. q[3] \subseteq OfSort("low_memory") \cup OfSort("swap_pressure")
    <2>1. MemoryFaults(h) \subseteq OfSort("low_memory") \cup OfSort("swap_pressure")
      <3>. DEFINE A == IF Known(h.memTotal) /\ Known(h.memAvailable)
                       THEN LET s == Share(h.memAvailable, h.memTotal)
                            IN  Level("low_memory", s < 100, s < 50)
                       ELSE {}
                  B == IF h.swapTotal > 0 /\ Known(h.swapFree)
                       THEN If(Share(h.swapFree, h.swapTotal) < 500, "swap_pressure") ELSE {}
      <3>1. A \subseteq OfSort("low_memory") /\ B \subseteq OfSort("swap_pressure")
        BY OfItsSort
      <3>2. MemoryFaults(h) = A \cup B
        BY DEF MemoryFaults
      <3>. HIDE DEF A, B
      <3>. QED  BY <3>1, <3>2
    <2>. QED  BY <2>1 DEF Faults
  <1>4. q[4] \subseteq OfSort("disk_full") /\ q[10] \subseteq OfSort("inodes_full")
    BY OfItsSort DEF Faults, FullFaults
  <1>5. /\ q[5] \subseteq OfSort("failed_units") /\ q[15] \subseteq OfSort("reboot_required")
        /\ q[16] \subseteq OfSort("kernel_tainted") /\ q[17] \subseteq OfSort("nic_errors")
        /\ q[9] \subseteq OfSort("oom_recent")
    BY DEF Faults, NicFaults, If, Warn, OfSort, OomAlarm
  <1>6. /\ q[11] \subseteq OfSort("zombie_procs") \cup OfSort("stuck_procs")
        /\ q[13] \subseteq OfSort("clock_skew") \cup OfSort("clock_unsynced")
    BY DEF Faults, If, Warn, OfSort
  <1>7. /\ \A w \in q[6] : Placed(w, 6)
        /\ \A w \in q[7] : Placed(w, 7)
        /\ \A w \in q[8] : Placed(w, 8)
    BY PressurePlaced DEF Faults
  <1>. HIDE DEF q
  <1>8. PlacedAll(q)
    BY <1>1, <1>2, <1>3, <1>4, <1>5, <1>6, <1>7, PlacedSorts
  <1>. QED  BY <1>8 DEF q

\* A false alarm of one of these sections is of a kind that may be false.
LEMMA MayBe ==
    ASSUME NEW f, NEW k \in {2, 3, 5, 9, 14, 16}, NEW w \in Alarms(f)[k]
    PROVE  w.kind \in MayBeFalse
  <1>1. k \in 1..18
    OBVIOUS
  <1>. QED  BY <1>1, AlarmsPlaced DEF PlacedAll, Placed

-----------------------------------------------------------------------------
(* The other sections.                                                     *)

\* Lines that may be printed are lines.
LEMMA PrintedLines ==
    ASSUME NEW L \in Seq(Printed)
    PROVE  L \in Seq(LineType)
  <1>1. Printed \subseteq LineType
    BY DEF Printed
  <1>. QED  BY <1>1, Widened

\* Units that failed and kills for want of memory: sections 5 and 9.
LEMMA SectionCounted ==
    ASSUME NEW n \in Nat, NEW is \in Words, NEW X, \A w \in X : w.kind \in MayBeFalse,
           NEW k \in 1..18, NEW c, c.section \in 0..18, NEW ls, Left(Times(n, is), k, c, ls)
    PROVE  Agrees(k, c, IF Len(ls) > 0 THEN X ELSE {}, IF n > 0 THEN X ELSE {})
  <1>. DEFINE L == Times(n, is)
              A == IF Len(ls) > 0 THEN X ELSE {}
              F == IF n > 0 THEN X ELSE {}
  <1>1. L \in Seq(Printed) /\ Len(L) = n
    <2>1. L \in Seq(Printed)
      BY TimesTyped
    <2>2. Len(L) = n
      BY DEF Times
    <2>. QED  BY <2>1, <2>2
  <1>2. Left(L, k, c, ls)
    OBVIOUS
  <1>. HIDE DEF L
  <1>3. ls = L => A = F
    BY <1>1
  <1>4. ls = L \o <<Piece>> => F \subseteq A /\ \A w \in A : w \in F \/ w.kind \in MayBeFalse
    <2>1. Len(L \o <<Piece>>) = n + 1
      BY <1>1, PieceAfter
    <2>. QED  BY <2>1
  <1>5. ls = <<>> => A \subseteq F
    OBVIOUS
  <1>6. \A m : Cut(L, m, ls) => \A w \in A : w \in F \/ w.kind \in MayBeFalse
    OBVIOUS
  <1>. HIDE DEF A, F
  <1>7. Agrees(k, c, A, F)
    BY <1>2, <1>3, <1>4, <1>5, <1>6, AgreesFrom
  <1>. QED  BY <1>7 DEF A, F

\* A section whose cut tells no more than it told whole, and that no piece changes.
LEMMA AgreesLess ==
    ASSUME NEW L \in Seq(Printed), NEW k \in 1..18, NEW c, c.section \in 0..18, NEW ls,
           Left(L, k, c, ls), NEW A, NEW F,
           Entire(L, ls) => A = F,
           \A m : Cut(L, m, ls) => \A w \in A : w \in F \/ w.kind \in MayBeFalse,
           ls = <<>> => A = {}
    PROVE  Agrees(k, c, A, F)
  <1>1. (ls = L => A = F)
        /\ (ls = L \o <<Piece>> => F \subseteq A /\ \A w \in A : w \in F \/ w.kind \in MayBeFalse)
        /\ (ls = <<>> => A \subseteq F)
    BY DEF Entire
  <1>. QED  BY <1>1, AgreesFrom

\* Pressure stall information: sections 6 to 8.
LEMMA SectionPressure ==
    ASSUME NEW is \in {"psi_cpu", "psi_memory", "psi_io"}, NEW n \in Reading, NEW r,
           NEW k \in 1..18, NEW c, c.section \in 0..18, NEW ls, Left(Said(is, n), k, c, ls)
    PROVE  Agrees(k, c, Pressure(r, FirstIn(ls, is)), Pressure(r, n))
  <1>. DEFINE L == Said(is, n)
              v == FirstIn(ls, is)
              A == Pressure(r, v)
              F == Pressure(r, n)
  <1>1. is \in Words /\ is \in Cents /\ is # "piece"
    BY DEF Words, Cents
  <1>2. L \in Seq(Printed)
    BY <1>1, SaidTyped
  <1>3. FirstIn(L, is) = n
    BY FirstSaid
  <1>4. \A i \in 1..Len(L) : L[i].is = is => n \in Nat /\ L[i].n = n
    BY DEF Said, Line, Reading
  <1>5. Left(L, k, c, ls)
    OBVIOUS
  <1>. HIDE DEF L
  <1>6. Entire(L, ls) => A = F
    BY <1>1, <1>2, <1>3, EntireRead, PrintedLines
  <1>7. ASSUME NEW m, Cut(L, m, ls) PROVE A \subseteq F
    <2>1. CASE v = None
      BY <2>1 DEF Pressure, None
    <2>2. CASE v # None
      <3>1. n \in Nat /\ v \in Nat /\ v <= n
        BY <1>1, <1>2, <1>4, <1>7, <2>2, CutFirst
      <3>. QED  BY <3>1 DEF Pressure
    <2>. QED  BY <2>1, <2>2
  <1>8. ls = <<>> => A = {}
    <2>1. FirstIn(<<>>, is) = None
      BY NothingRead
    <2>. QED  BY <2>1 DEF Pressure, None
  <1>9. \A m : Cut(L, m, ls) => \A w \in A : w \in F \/ w.kind \in MayBeFalse
    BY <1>7
  <1>. HIDE DEF A, F
  <1>10. Agrees(k, c, A, F)
    BY <1>2, <1>5, <1>6, <1>8, <1>9, AgreesLess
  <1>. QED  BY <1>10 DEF A, F

\* Load: section 2, with the load of section 1.
LEMMA SectionLoad ==
    ASSUME NEW h \in TriageHost, NEW c, c.section \in 0..18, NEW ls1, NEW ls,
           Left(Said("load1", h.load1), 1, c, ls1), Left(Said("nproc", h.nproc), 2, c, ls),
           NEW f, f.load1 = FirstIn(ls1, "load1"), f.nproc = FirstIn(ls, "nproc")
    PROVE  Agrees(2, c, LoadWarnings(f), LoadFaults(h))
  <1>. DEFINE L == Said("nproc", h.nproc)
              L1 == Said("load1", h.load1)
              A == LoadWarnings(f)
              F == LoadFaults(h)
  <1>1. L \in Seq(Printed) /\ FirstIn(L, "nproc") = h.nproc /\ FirstIn(L1, "load1") = h.load1
    <2>1. "nproc" \in Words /\ h.nproc \in Reading
      BY DEF Words, Counts, TriageHost
    <2>. QED  BY <2>1, SaidTyped, FirstSaid
  <1>2. L \in Seq(LineType)
    BY <1>1, PrintedLines
  <1>3. Left(L, 2, c, ls) /\ Left(L1, 1, c, ls1)
    OBVIOUS
  <1>. HIDE DEF L, L1
  <1>4. Entire(L, ls) => f.nproc = h.nproc
    BY <1>1, <1>2, EntireRead
  <1>5. c.section = 0 \/ 2 < c.section => A = F
    <2>. SUFFICES ASSUME c.section = 0 \/ 2 < c.section PROVE A = F
      OBVIOUS
    <2>. DEFINE m == c.section
    <2>1. m \in 0..18 /\ (m = 0 \/ 2 < m)
      OBVIOUS
    <2>. HIDE DEF m
    <2>2. /\ ~(1 = m) /\ ~(1 + 1 = m) /\ ~(m # 0 /\ m < 1)
          /\ ~(2 = m) /\ ~(m # 0 /\ m < 2)
      BY <2>1
    <2>3. ls1 = L1
      BY <1>3, <2>2 DEF Left, m
    <2>4. Entire(L, ls)
      BY <1>3, <2>2 DEF Left, Entire, m
    <2>5. f.load1 = h.load1 /\ f.nproc = h.nproc
      BY <1>1, <1>4, <2>3, <2>4
    <2>. QED  BY <2>5, LoadSame
  <1>6. \A w \in A : w.kind \in MayBeFalse
    <2>1. A = Alarms(f)[2]
      BY DEF Alarms
    <2>. QED  BY <2>1, MayBe
  <1>7. ls = <<>> => A = {}
    <2>1. FirstIn(<<>>, "nproc") = None
      BY NothingRead
    <2>2. ls = <<>> => f.nproc = None
      BY <2>1
    <2>3. ls = <<>> => ~(f.load1 # None /\ f.nproc > 0 /\ 2 * f.load1 >= 300 * f.nproc)
      BY <2>2 DEF None
    <2>. QED  BY <2>3 DEF LoadWarnings, Graded
  <1>. HIDE DEF A, F
  <1>8. Agrees(2, c, A, F)
    <2>. DEFINE m == c.section
    <2>1. CASE m = 0 \/ 2 < m
      <3>1. A = F
        BY <1>5, <2>1
      <3>. QED  BY <3>1 DEF Agrees
    <2>2. CASE m = 2
      <3>1. ~(m = 0 \/ 2 < m)
        BY <2>2
      <3>. QED  BY <1>6, <2>2, <3>1 DEF Agrees
    <2>3. CASE m = 1
      <3>1. ~(m = 0 \/ 2 < m) /\ 2 # m /\ 2 + 1 # m
        BY <2>3
      <3>2. ls = <<>>
        <4>1. m # 0 /\ m < 2
          BY <2>3
        <4>. QED  BY <1>3, <3>1, <4>1 DEF Left
      <3>. QED  BY <1>7, <3>1, <3>2 DEF Agrees
    <2>4. m \in 0..18
      OBVIOUS
    <2>. HIDE DEF m
    <2>5. m = 0 \/ 2 < m \/ m = 2 \/ m = 1
      BY <2>4
    <2>. QED  BY <2>1, <2>2, <2>3, <2>5
  <1>. QED  BY <1>8 DEF A, F

\* Memory: section 3.
LEMMA SectionMemory ==
    ASSUME NEW h \in TriageHost, NEW c, c.section \in 0..18, NEW L, NEW ls,
           L = Said("MemTotal", h.memTotal) \o Said("MemAvailable", h.memAvailable)
               \o Said("SwapTotal", h.swapTotal) \o Said("SwapFree", h.swapFree),
           L \in Seq(Printed), Left(L, 3, c, ls),
           NEW f, f.memTotal = FirstIn(ls, "MemTotal"), f.memAvailable = FirstIn(ls, "MemAvailable"),
           f.swapTotal = FirstIn(ls, "SwapTotal"), f.swapFree = FirstIn(ls, "SwapFree")
    PROVE  Agrees(3, c, MemoryWarnings(f), MemoryFaults(h))
  <1>. DEFINE A == MemoryWarnings(f)
              F == MemoryFaults(h)
  <1>1. /\ FirstIn(L, "MemTotal") = h.memTotal /\ FirstIn(L, "MemAvailable") = h.memAvailable
        /\ FirstIn(L, "SwapTotal") = h.swapTotal /\ FirstIn(L, "SwapFree") = h.swapFree
    BY FirstOfFour
  <1>2. L \in Seq(LineType)
    BY PrintedLines
  <1>3. ASSUME Entire(L, ls) PROVE A = F
    <2>1. \A is : is # "piece" => FirstIn(ls, is) = FirstIn(L, is)
      BY <1>2, <1>3, EntireRead
    <2>2. f.memTotal = h.memTotal /\ f.memAvailable = h.memAvailable
          /\ f.swapTotal = h.swapTotal /\ f.swapFree = h.swapFree
      BY <1>1, <2>1
    <2>. QED  BY <2>2, MemorySame
  <1>4. \A w \in A : w.kind \in MayBeFalse
    <2>1. A = Alarms(f)[3]
      BY DEF Alarms
    <2>. QED  BY <2>1, MayBe
  <1>5. ASSUME ls = <<>> PROVE A = {}
    <2>1. f.memTotal = None /\ f.swapTotal = None
      BY <1>5, NothingRead
    <2>2. ~(f.memTotal > 0 /\ f.memAvailable # None /\ 10 * f.memAvailable < f.memTotal)
          /\ ~(f.swapTotal > 0 /\ f.swapFree # None /\ 2 * (f.swapTotal - f.swapFree) > f.swapTotal)
      BY <2>1 DEF None
    <2>. QED  BY <2>2 DEF MemoryWarnings, Graded, If
  <1>. HIDE DEF A, F
  <1>6. Agrees(3, c, A, F)
    <2>1. (Entire(L, ls) => A = F) /\ (ls = <<>> => A = {})
          /\ \A m : Cut(L, m, ls) => \A w \in A : w \in F \/ w.kind \in MayBeFalse
      BY <1>3, <1>4, <1>5
    <2>2. 3 \in 1..18
      OBVIOUS
    <2>. QED  BY <2>1, <2>2, AgreesLess
  <1>. QED  BY <1>6 DEF A, F

\* Processes: section 11.
Procs(z, d) == <<Line("S", 0)>> \o Times(z, "Z") \o Times(d, "D")

\* The zombies lie below the heading of ps, the stuck processes below them.
LEMMA ProcLines ==
    ASSUME NEW z \in Nat, NEW d \in Nat, NEW L, L = Procs(z, d)
    PROVE  /\ L \in Seq(Printed)
           /\ Within(L, "Z", 1, z) /\ Fills(L, "Z", 1, z)
           /\ Within(L, "D", 1 + z, d) /\ Fills(L, "D", 1 + z, d)
  <1>. DEFINE a == <<Line("S", 0)>>
              b == Times(z, "Z")
              e == Times(d, "D")
              v == a \o b
  <1>1. a \in Seq(Printed) /\ b \in Seq(Printed) /\ e \in Seq(Printed)
    <2>1. "S" \in Words /\ "Z" \in Words /\ "D" \in Words
      BY DEF Words, Begun
    <2>. QED  BY <2>1, OneTyped, TimesTyped
  <1>2. Len(a) = 1 /\ a[1].is = "S"
    BY DEF Line
  <1>3. Len(b) = z /\ \A i \in 1..z : b[i].is = "Z"
    BY DEF Times, Line
  <1>4. Len(e) = d /\ \A i \in 1..d : e[i].is = "D"
    BY DEF Times, Line
  <1>. HIDE DEF a, b, e
  <1>5. /\ v \in Seq(Printed) /\ Len(v) = Len(a) + Len(b)
        /\ \A i \in 1..Len(a) : v[i] = a[i]
        /\ \A i \in 1..Len(b) : v[Len(a) + i] = b[i]
    BY <1>1, Together
  <1>. HIDE DEF v
  <1>6. /\ v \o e \in Seq(Printed) /\ Len(v \o e) = Len(v) + Len(e)
        /\ \A i \in 1..Len(v) : (v \o e)[i] = v[i]
        /\ \A i \in 1..Len(e) : (v \o e)[Len(v) + i] = e[i]
    <2>1. v \in Seq(Printed) /\ e \in Seq(Printed)
      BY <1>1, <1>5
    <2>. QED  BY <2>1, Together
  <1>7. L = v \o e
    BY DEF Procs, v, a, b, e
  <1>8. Len(v) = 1 + z /\ Len(L) = 1 + z + d
    BY <1>2, <1>3, <1>4, <1>5, <1>6, <1>7
  <1>9. L[1].is = "S"
    <2>1. 1 \in 1..Len(a) /\ 1 \in 1..Len(v)
      BY <1>2, <1>8
    <2>. QED  BY <1>2, <1>5, <1>6, <1>7, <2>1
  <1>10. ASSUME NEW i \in 2..(1 + z) PROVE L[i].is = "Z"
    <2>1. i \in 1..Len(v) /\ i - 1 \in 1..Len(b) /\ i - 1 \in 1..z /\ Len(a) + (i - 1) = i
      BY <1>2, <1>3, <1>8
    <2>2. v[i] = b[i - 1]
      BY <1>5, <2>1
    <2>3. L[i] = v[i]
      BY <1>6, <1>7, <2>1
    <2>. QED  BY <1>3, <2>1, <2>2, <2>3
  <1>11. ASSUME NEW i \in (2 + z)..(1 + z + d) PROVE L[i].is = "D"
    <2>. DEFINE j == i - (1 + z)
    <2>1. j \in 1..d /\ j \in 1..Len(e) /\ Len(v) + j = i
      BY <1>4, <1>8
    <2>. HIDE DEF j
    <2>2. L[Len(v) + j] = e[j]
      BY <1>6, <1>7, <2>1
    <2>. QED  BY <1>4, <2>1, <2>2
  <1>12. ASSUME NEW i \in 1..Len(L) PROVE i = 1 \/ i \in 2..(1 + z) \/ i \in (2 + z)..(1 + z + d)
    BY <1>8
  <1>13. \A i \in 1..Len(L) : L[i].is = "Z" <=> i \in 2..(1 + z)
    BY <1>9, <1>10, <1>11, <1>12
  <1>14. \A i \in 1..Len(L) : L[i].is = "D" <=> i \in (2 + z)..(1 + z + d)
    BY <1>9, <1>10, <1>11, <1>12
  <1>15. Within(L, "Z", 1, z) /\ Fills(L, "Z", 1, z)
    BY <1>8, <1>13 DEF Within, Fills
  <1>16. Within(L, "D", 1 + z, d) /\ Fills(L, "D", 1 + z, d)
    BY <1>8, <1>14 DEF Within, Fills
  <1>. QED  BY <1>6, <1>7, <1>15, <1>16

\* What came through of some lines stands where it stood.
LEMMA WithinSome ==
    ASSUME NEW L, NEW is, NEW a, NEW n, Within(L, is, a, n), NEW ls,
           \A i \in 1..Len(ls) : ls[i].is = is => i \in 1..Len(L) /\ ls[i] = L[i]
    PROVE  Within(ls, is, a, n)
  BY DEF Within

\* Lines that fill places keep filling them in a text that begins with theirs.
LEMMA FillsAll ==
    ASSUME NEW L, NEW is, NEW a, NEW n, Fills(L, is, a, n), NEW ls,
           \A i \in 1..Len(L) : i \in 1..Len(ls) /\ ls[i] = L[i]
    PROVE  Fills(ls, is, a, n)
  BY DEF Fills

\* Section ps_states: counting processes agrees with the host.
LEMMA SectionProcs ==
    ASSUME NEW z \in Nat, NEW d \in Nat, NEW L,
           L = Procs(z, d), NEW t, NEW ls \in Seq(LineType), Reads(t, "ps_states", ls),
           NEW k \in 1..18, NEW c, c.section \in 0..18, Left(L, k, c, ls),
           NEW zs, zs = Count(t, "ps_states", "Z"), NEW ds, ds = Count(t, "ps_states", "D")
    PROVE  Agrees(k, c, If(zs >= 1, "zombie_procs") \cup If(ds >= 5, "stuck_procs"),
                  If(z > 0, "zombie_procs") \cup If(d > 4, "stuck_procs"))
  <1>. DEFINE A == If(zs >= 1, "zombie_procs") \cup If(ds >= 5, "stuck_procs")
              F == If(z > 0, "zombie_procs") \cup If(d > 4, "stuck_procs")
              m == 1 + z
  <1>1. /\ L \in Seq(Printed)
        /\ Within(L, "Z", 1, z) /\ Fills(L, "Z", 1, z)
        /\ Within(L, "D", m, d) /\ Fills(L, "D", m, d)
    BY ProcLines
  <1>2. Len(ls) \in Nat /\ m \in Nat
    OBVIOUS
  <1>. HIDE DEF m
  <1>3. ASSUME Within(ls, "Z", 1, z), Within(ls, "D", m, d)
        PROVE  zs \in Nat /\ ds \in Nat /\ zs <= z /\ ds <= d
    BY <1>2, <1>3, CountedKind
  <1>4. ASSUME \A i \in 1..Len(ls) : ls[i].is \in {"Z", "D"} => i \in 1..Len(L) /\ ls[i] = L[i]
        PROVE  A \subseteq F
    <2>1. Within(ls, "Z", 1, z) /\ Within(ls, "D", m, d)
      BY <1>1, <1>4, WithinSome
    <2>2. (zs >= 1 => z > 0) /\ (ds >= 5 => d > 4)
      BY <1>3, <2>1
    <2>. QED  BY <2>2 DEF If
  <1>5. ASSUME Entire(L, ls) PROVE A = F
    <2>1. /\ \A i \in 1..Len(L) : i \in 1..Len(ls) /\ ls[i] = L[i]
          /\ \A i \in 1..Len(ls) : ls[i].is # "piece" => i \in 1..Len(L) /\ ls[i] = L[i]
      BY <1>1, <1>5, EntireAt
    <2>2. Within(ls, "Z", 1, z) /\ Within(ls, "D", m, d)
      BY <1>1, <2>1, WithinSome
    <2>3. Fills(ls, "Z", 1, z) /\ Fills(ls, "D", m, d)
      BY <1>1, <2>1, FillsAll
    <2>4. zs = z /\ ds = d
      BY <1>2, <2>2, <2>3, CountedKind
    <2>5. (zs >= 1 <=> z > 0) /\ (ds >= 5 <=> d > 4)
      BY <2>4
    <2>. QED  BY <2>5 DEF If
  <1>6. ASSUME NEW x, Cut(L, x, ls) PROVE A \subseteq F
    <2>1. {"Z", "D"} \cap Changed = {}
      BY DEF Changed, Resized, Counts, Cents, NameKinds
    <2>2. \A i \in 1..Len(ls) : ls[i].is \notin Changed => i \in 1..Len(L) /\ ls[i] = L[i]
      BY <1>1, <1>6, CutPlainAt
    <2>3. \A i \in 1..Len(ls) : ls[i].is \in {"Z", "D"} => i \in 1..Len(L) /\ ls[i] = L[i]
      BY <2>1, <2>2
    <2>. QED  BY <1>4, <2>3
  <1>7. ls = <<>> => A \subseteq F
    <2>1. ls = <<>> => \A i \in 1..Len(ls) : FALSE
      OBVIOUS
    <2>. QED  BY <1>4, <2>1
  <1>8. Left(L, k, c, ls)
    OBVIOUS
  <1>. HIDE DEF A, F
  <1>9. (ls = L => A = F) /\ (ls = L \o <<Piece>> => A = F)
    BY <1>5 DEF Entire
  <1>10. Agrees(k, c, A, F)
    <2>1. /\ \A x : Cut(L, x, ls) => \A w \in A : w \in F \/ w.kind \in MayBeFalse
          /\ (ls = L \o <<Piece>> => F \subseteq A /\ \A w \in A : w \in F \/ w.kind \in MayBeFalse)
      BY <1>6, <1>9
    <2>. QED  BY <1>7, <1>8, <1>9, <2>1, AgreesFrom
  <1>. QED  BY <1>10 DEF A, F

\* The clock: section 13.
Both(a, m, b, n) == Said(a, m) \o Said(b, n)

\* Two sources in one section are told apart.
LEMMA TwoSaid ==
    ASSUME NEW a \in Words, NEW m \in Reading, NEW b \in Words, NEW n \in Reading, a # b,
           NEW L, L = Both(a, m, b, n)
    PROVE  /\ L \in Seq(Printed)
           /\ FirstIn(L, a) = m /\ FirstIn(L, b) = n
           /\ \A i \in 1..Len(L) : L[i].is = a => m \in Nat /\ L[i].n = m
  <1>. DEFINE u == Said(a, m)
              v == Said(b, n)
  <1>1. u \in Seq(Printed) /\ v \in Seq(Printed)
    BY SaidTyped
  <1>2. FirstIn(L, a) = m /\ FirstIn(L, b) = n
    BY FirstOfTwo DEF Both
  <1>3. \A i \in 1..Len(u) : m \in Nat /\ u[i].n = m
    BY DEF Said, Line, Reading
  <1>4. \A i \in 1..Len(v) : v[i].is = b
    BY DEF Said, Line
  <1>5. L = u \o v
    BY DEF Both
  <1>. HIDE DEF u, v
  <1>6. /\ L \in Seq(Printed) /\ Len(L) = Len(u) + Len(v)
        /\ \A i \in 1..Len(u) : L[i] = u[i]
        /\ \A i \in 1..Len(v) : L[Len(u) + i] = v[i]
    BY <1>1, <1>5, Together
  <1>7. Len(u) \in Nat /\ Len(v) \in Nat
    BY <1>1
  <1>8. ASSUME NEW i \in 1..Len(L), L[i].is = a PROVE m \in Nat /\ L[i].n = m
    <2>1. CASE i \in 1..Len(u)
      BY <1>3, <1>6, <2>1
    <2>2. CASE i \notin 1..Len(u)
      <3>. DEFINE j == i - Len(u)
      <3>1. j \in 1..Len(v) /\ Len(u) + j = i
        BY <1>6, <1>7, <2>2
      <3>. HIDE DEF j
      <3>2. L[i].is = b
        BY <1>4, <1>6, <3>1
      <3>. QED  BY <1>8, <3>2
    <2>. QED  BY <2>1, <2>2
  <1>. QED  BY <1>2, <1>6, <1>8

\* Section clock: an offset cut short is smaller and alarms less.
LEMMA SectionClock ==
    ASSUME NEW o \in Reading, NEW p \in Reading, NEW L, L = Both("offset", o, "leap", p),
           NEW c, c.section \in 0..18, NEW ls, Left(L, 13, c, ls),
           NEW f, f.offset = FirstIn(ls, "offset"), f.leap = FirstIn(ls, "leap")
    PROVE  Agrees(13, c, ClockWarnings(f), If(o > 10, "clock_skew") \cup If(p = 1, "clock_unsynced"))
  <1>. DEFINE A1 == If(f.offset > 10, "clock_skew")
              A2 == If(f.leap = 1, "clock_unsynced")
              F1 == If(o > 10, "clock_skew")
              F2 == If(p = 1, "clock_unsynced")
              A == A1 \cup A2
              F == F1 \cup F2
  <1>1. /\ L \in Seq(Printed) /\ FirstIn(L, "offset") = o /\ FirstIn(L, "leap") = p
        /\ \A i \in 1..Len(L) : L[i].is = "offset" => o \in Nat /\ L[i].n = o
    <2>1. "offset" \in Words /\ "leap" \in Words
      BY DEF Words, Cents
    <2>. QED  BY <2>1, TwoSaid
  <1>2. L \in Seq(LineType)
    BY <1>1, PrintedLines
  <1>3. ASSUME Entire(L, ls) PROVE A = F
    <2>1. f.offset = o /\ f.leap = p
      BY <1>1, <1>2, <1>3, EntireRead
    <2>. QED  BY <2>1
  <1>4. ASSUME NEW m, Cut(L, m, ls) PROVE A1 \subseteq F1
    <2>1. CASE f.offset = None
      BY <2>1 DEF If, None
    <2>2. CASE f.offset # None
      <3>1. "offset" \in Cents
        BY DEF Cents
      <3>2. FirstIn(ls, "offset") # None
        BY <2>2
      <3>3. o \in Nat /\ FirstIn(ls, "offset") \in Nat /\ FirstIn(ls, "offset") <= o
        BY <1>1, <1>4, <3>1, <3>2, CutFirst
      <3>4. o \in Nat /\ f.offset \in Nat /\ f.offset <= o
        BY <3>3
      <3>. QED  BY <3>4 DEF If
    <2>. QED  BY <2>1, <2>2
  <1>5. \A w \in A2 : w.kind \in MayBeFalse
    <2>1. \A w \in A2 : w = Warning("clock_unsynced", "warn", "")
      BY DEF If, Warn
    <2>2. Warning("clock_unsynced", "warn", "").kind \in MayBeFalse
      BY DEF Warning, MayBeFalse
    <2>. QED  BY <2>1, <2>2
  <1>6. ASSUME ls = <<>> PROVE A = {}
    <2>1. f.offset = None /\ f.leap = None
      BY <1>6, NothingRead
    <2>2. ~(f.offset > 10) /\ f.leap # 1
      BY <2>1 DEF None
    <2>. QED  BY <2>2 DEF If
  <1>7. ClockWarnings(f) = A
    BY DEF ClockWarnings
  <1>8. Left(L, 13, c, ls)
    OBVIOUS
  <1>. HIDE DEF A1, A2, F1, F2
  <1>9. \A m : Cut(L, m, ls) => \A w \in A : w \in F \/ w.kind \in MayBeFalse
    BY <1>4, <1>5
  <1>. HIDE DEF A, F
  <1>10. Agrees(13, c, A, F)
    <2>1. (Entire(L, ls) => A = F) /\ (ls = <<>> => A = {}) /\ 13 \in 1..18
      BY <1>3, <1>6
    <2>. QED  BY <1>1, <1>8, <1>9, <2>1, AgreesLess
  <1>. QED  BY <1>7, <1>10 DEF F, F1, F2

\* Connections tracked: section 14.
LEMMA SectionConntrack ==
    ASSUME NEW h \in TriageHost, NEW L, L = Both("count", h.count, "max", h.max),
           NEW c, c.section \in 0..18, NEW ls, Left(L, 14, c, ls),
           NEW f,
           f.count = IF HasIn(ls, "count") /\ HasIn(ls, "max") THEN FirstIn(ls, "count") ELSE None,
           f.max = IF HasIn(ls, "count") /\ HasIn(ls, "max") THEN FirstIn(ls, "max") ELSE None
    PROVE  Agrees(14, c, ConntrackWarnings(f), ConntrackFaults(h))
  <1>. DEFINE A == ConntrackWarnings(f)
              F == ConntrackFaults(h)
              a == h.count
              b == h.max
  <1>. HIDE DEF a, b
  <1>1. L \in Seq(Printed) /\ FirstIn(L, "count") = a /\ FirstIn(L, "max") = b
    <2>1. "count" \in Words /\ "max" \in Words /\ a \in Reading /\ b \in Reading
      BY DEF Words, Counts, TriageHost, a, b
    <2>2. L = Both("count", a, "max", b)
      BY DEF a, b
    <2>. QED  BY <2>1, <2>2, TwoSaid
  <1>2. L \in Seq(LineType)
    BY <1>1, PrintedLines
  <1>3. ASSUME Entire(L, ls) PROVE A = F
    <2>1. FirstIn(ls, "count") = a /\ FirstIn(ls, "max") = b
          /\ HasIn(ls, "count") = HasIn(L, "count") /\ HasIn(ls, "max") = HasIn(L, "max")
      BY <1>1, <1>2, <1>3, EntireRead
    <2>2. (HasIn(L, "count") <=> a # None) /\ (HasIn(L, "max") <=> b # None)
      BY <1>1, <1>2, FirstKnown
    <2>3. f.count = (IF a # None /\ b # None THEN a ELSE None)
          /\ f.max = (IF a # None /\ b # None THEN b ELSE None)
      BY <2>1, <2>2
    <2>. QED  BY <2>3, ConntrackSame DEF a, b
  <1>4. \A w \in A : w.kind \in MayBeFalse
    <2>1. A = Alarms(f)[14]
      BY DEF Alarms
    <2>. QED  BY <2>1, MayBe
  <1>5. ASSUME ls = <<>> PROVE A = {}
    <2>1. f.count = None
      BY <1>5, NothingRead
    <2>. QED  BY <2>1 DEF ConntrackWarnings, Graded
  <1>6. Left(L, 14, c, ls)
    OBVIOUS
  <1>. HIDE DEF A, F
  <1>7. Agrees(14, c, A, F)
    <2>1. (Entire(L, ls) => A = F) /\ (ls = <<>> => A = {}) /\ 14 \in 1..18
          /\ \A m : Cut(L, m, ls) => \A w \in A : w \in F \/ w.kind \in MayBeFalse
      BY <1>3, <1>4, <1>5
    <2>. QED  BY <1>1, <1>6, <2>1, AgreesLess
  <1>. QED  BY <1>7 DEF A, F

\* Whether a reboot is required: section 15.
Reboot(n) == <<Line(IF n = 1 THEN "yes" ELSE "no", 0)>>

\* Section reboot_required: its "yes" is never made by a cut.
LEMMA SectionReboot ==
    ASSUME NEW n, NEW L, L = Reboot(n),
           NEW k \in 1..18, NEW c, c.section \in 0..18, NEW ls, Left(L, k, c, ls)
    PROVE  Agrees(k, c, If(HasIn(ls, "yes"), "reboot_required"), If(n = 1, "reboot_required"))
  <1>. DEFINE A == If(HasIn(ls, "yes"), "reboot_required")
              F == If(n = 1, "reboot_required")
              is == IF n = 1 THEN "yes" ELSE "no"
  <1>1. /\ L \in Seq(Printed) /\ L \in Seq(LineType) /\ Len(L) = 1 /\ L[1].is = is
    <2>1. is \in Words
      BY DEF Words
    <2>2. L = <<Line(is, 0)>>
      BY DEF Reboot
    <2>. HIDE DEF is
    <2>3. L \in Seq(Printed)
      BY <2>1, <2>2, OneTyped
    <2>4. Len(L) = 1 /\ L[1].is = is
      BY <2>2 DEF Line
    <2>. QED  BY <2>3, <2>4, PrintedLines
  <1>2. HasIn(L, "yes") <=> n = 1
    BY <1>1 DEF HasIn, HasLine
  <1>3. ASSUME Entire(L, ls) PROVE A = F
    <2>1. HasIn(ls, "yes") = HasIn(L, "yes")
      BY <1>1, <1>3, EntireRead
    <2>. QED  BY <1>2, <2>1 DEF If
  <1>4. ASSUME NEW m, Cut(L, m, ls) PROVE A \subseteq F
    <2>1. "yes" \notin Changed
      BY DEF Changed, Resized, Counts, Cents, NameKinds
    <2>2. \A i \in 1..Len(ls) : ls[i].is \notin Changed => i \in 1..Len(L) /\ ls[i] = L[i]
      BY <1>1, <1>4, CutPlainAt
    <2>3. HasIn(ls, "yes") => HasIn(L, "yes")
      BY <2>1, <2>2 DEF HasIn, HasLine
    <2>. QED  BY <1>2, <2>3 DEF If
  <1>5. ls = <<>> => A = {}
    BY NothingRead DEF If
  <1>6. Left(L, k, c, ls)
    OBVIOUS
  <1>. HIDE DEF A, F
  <1>7. Agrees(k, c, A, F)
    <2>1. (Entire(L, ls) => A = F)
          /\ \A m : Cut(L, m, ls) => \A w \in A : w \in F \/ w.kind \in MayBeFalse
      BY <1>3, <1>4
    <2>. QED  BY <1>1, <1>5, <1>6, <2>1, AgreesLess
  <1>. QED  BY <1>7 DEF A, F

\* A power is in a number when its bit is set.
LEMMA SumsBit ==
    ASSUME NEW n \in Nat
    PROVE  /\ Sums(n, 4) <=> (n \div 4) % 2 = 1
           /\ Sums(n, 16) <=> (n \div 16) % 2 = 1
           /\ Sums(n, 32) <=> (n \div 32) % 2 = 1
           /\ Sums(n, 128) <=> (n \div 128) % 2 = 1
           /\ Sums(n, 512) <=> (n \div 512) % 2 = 1
  <1>1. Sums(n, 4) <=> (n \div 4) % 2 = 1
    BY DEF Sums
  <1>2. Sums(n, 16) <=> (n \div 16) % 2 = 1
    BY DEF Sums
  <1>3. Sums(n, 32) <=> (n \div 32) % 2 = 1
    BY DEF Sums
  <1>4. Sums(n, 128) <=> (n \div 128) % 2 = 1
    BY DEF Sums
  <1>5. Sums(n, 512) <=> (n \div 512) % 2 = 1
    BY DEF Sums
  <1>. QED  BY <1>1, <1>2, <1>3, <1>4, <1>5

\* The taint of the kernel: section 16.
LEMMA SectionTaint ==
    ASSUME NEW n \in Reading, NEW L, L = Said("taint", n), NEW c, c.section \in 0..18, NEW ls,
           Left(L, 16, c, ls), NEW f, f.taint = FirstIn(ls, "taint")
    PROVE  Agrees(16, c, If(f.taint > 0 /\ Faulty(f.taint), "kernel_tainted"),
                  If(Known(n) /\ FaultIn(n), "kernel_tainted"))
  <1>. DEFINE A == If(f.taint > 0 /\ Faulty(f.taint), "kernel_tainted")
              F == If(Known(n) /\ FaultIn(n), "kernel_tainted")
  <1>1. L \in Seq(Printed) /\ L \in Seq(LineType) /\ FirstIn(L, "taint") = n
    <2>1. "taint" \in Words
      BY DEF Words, Counts
    <2>2. L \in Seq(Printed)
      BY <2>1, SaidTyped
    <2>. QED  BY <2>2, PrintedLines, FirstSaid
  <1>2. n > 0 /\ Faulty(n) <=> Known(n) /\ FaultIn(n)
    <2>1. CASE n = None
      BY <2>1 DEF Known, None
    <2>2. CASE n = 0
      BY <2>2 DEF Faulty, FaultIn, Sums
    <2>3. CASE n \in Nat \ {0}
      <3>1. n > 0 /\ Known(n)
        BY <2>3 DEF Known, None
      <3>2. Faulty(n) <=> FaultIn(n)
        BY <2>3, SumsBit DEF Faulty, FaultIn
      <3>. QED  BY <3>1, <3>2
    <2>. QED  BY <2>1, <2>2, <2>3 DEF Reading
  <1>3. ASSUME Entire(L, ls) PROVE A = F
    <2>1. f.taint = n
      BY <1>1, <1>3, EntireRead
    <2>. QED  BY <1>2, <2>1 DEF If
  <1>4. \A w \in A : w.kind \in MayBeFalse
    <2>1. A = Alarms(f)[16]
      BY DEF Alarms
    <2>. QED  BY <2>1, MayBe
  <1>5. ASSUME ls = <<>> PROVE A = {}
    <2>1. f.taint = None
      BY <1>5, NothingRead
    <2>2. ~(f.taint > 0)
      BY <2>1 DEF None
    <2>. QED  BY <2>2 DEF If
  <1>6. Left(L, 16, c, ls)
    OBVIOUS
  <1>. HIDE DEF A, F
  <1>7. Agrees(16, c, A, F)
    <2>1. (Entire(L, ls) => A = F) /\ (ls = <<>> => A = {}) /\ 16 \in 1..18
          /\ \A m : Cut(L, m, ls) => \A w \in A : w \in F \/ w.kind \in MayBeFalse
      BY <1>3, <1>4, <1>5
    <2>. QED  BY <1>1, <1>6, <2>1, AgreesLess
  <1>. QED  BY <1>7 DEF A, F

\* The interfaces: section 17.
LEMMA NoisyWay ==
    ASSUME NEW way \in Traffic
    PROVE  Noisy(way) <=> /\ way.bad >= 100 /\ Share(way.bad, way.packets + 1) >= 10
                          /\ 100 * way.bad # way.packets + 1
  <1>. DEFINE a == 1000 * way.bad
              b == way.packets + 1
  <1>1. way.bad \in Nat /\ way.packets \in Nat
    BY DEF Traffic
  <1>2. a \in Nat /\ b \in Nat \ {0} /\ a = 10 * (100 * way.bad)
    BY <1>1
  <1>3. a \div b >= 10 <=> a >= 10 * b
    <2>. HIDE DEF a, b
    <2>. QED  BY <1>2, Quotient
  <1>4. Share(way.bad, b) = a \div b
    BY DEF Share
  <1>5. 100 * way.bad > b <=> a >= 10 * b /\ 100 * way.bad # b
    BY <1>1, <1>2
  <1>. HIDE DEF a
  <1>6. Noisy(way) <=> way.bad >= 100 /\ 100 * way.bad > b
    BY <1>1 DEF Noisy
  <1>. HIDE DEF b
  <1>7. Noisy(way) <=> way.bad >= 100 /\ Share(way.bad, b) >= 10 /\ 100 * way.bad # b
    BY <1>3, <1>4, <1>5, <1>6
  <1>. QED  BY <1>7 DEF b

NicLine == [is : {"nic"}, n : {0}, rx : Traffic, tx : Traffic]
NicAlarm(lines) == If(\E n \in lines : Noisy(n.rx) \/ Noisy(n.tx), "nic_errors")

\* The interfaces with errors, of all those listed.
LEMMA NicsSame ==
    ASSUME NEW h, h.nics \in Seq(NicLine)
    PROVE  NicFaults(h) = NicAlarm({h.nics[i] : i \in DOMAIN h.nics})
  <1>. DEFINE q == h.nics
              Bad(way) == way.bad >= 100 /\ Share(way.bad, way.packets + 1) >= 10
                                         /\ 100 * way.bad # way.packets + 1
  <1>1. \A i \in DOMAIN q : q[i].rx \in Traffic /\ q[i].tx \in Traffic
    <2>1. \A i \in DOMAIN q : q[i] \in NicLine
      OBVIOUS
    <2>2. \A l \in NicLine : l.rx \in Traffic /\ l.tx \in Traffic
      BY DEF NicLine
    <2>. QED  BY <2>1, <2>2
  <1>2. \A way \in Traffic : Noisy(way) <=> Bad(way)
    BY NoisyWay
  <1>3. NicFaults(h) = If(\E i \in DOMAIN q : \E way \in {q[i].rx, q[i].tx} : Bad(way), "nic_errors")
    BY DEF NicFaults
  <1>. HIDE DEF q, Bad
  <1>4. (\E i \in DOMAIN q : \E way \in {q[i].rx, q[i].tx} : Bad(way)) <=>
          \E n \in {q[i] : i \in DOMAIN q} : Noisy(n.rx) \/ Noisy(n.tx)
    BY <1>1, <1>2
  <1>5. If(\E i \in DOMAIN q : \E way \in {q[i].rx, q[i].tx} : Bad(way), "nic_errors") =
          NicAlarm({q[i] : i \in DOMAIN q})
    BY <1>4 DEF If, NicAlarm
  <1>. QED  BY <1>3, <1>5 DEF q

\* Section net_dev: a line cut short is no interface.
LEMMA SectionNics ==
    ASSUME NEW h, h.nics \in Seq(NicLine), h.nics \in Seq(Printed),
           NEW k \in 1..18, NEW c, c.section \in 0..18, NEW ls, Left(h.nics, k, c, ls)
    PROVE  Agrees(k, c, NicAlarm(OfKind(ls, 1..Len(ls), "nic")), NicFaults(h))
  <1>. DEFINE L == h.nics
              S == {L[i] : i \in DOMAIN L}
              R == OfKind(ls, 1..Len(ls), "nic")
              A == NicAlarm(R)
              F == NicAlarm(S)
  <1>1. NicFaults(h) = F
    BY NicsSame
  <1>2. L \in Seq(Printed) /\ DOMAIN L = 1..Len(L) /\ \A i \in 1..Len(L) : L[i].is = "nic"
    <2>1. \A i \in 1..Len(L) : L[i] \in NicLine
      OBVIOUS
    <2>2. \A l \in NicLine : l.is = "nic"
      BY DEF NicLine
    <2>. QED  BY <2>1, <2>2
  <1>3. Left(L, k, c, ls)
    OBVIOUS
  <1>. HIDE DEF L
  <1>4. ASSUME \A i \in 1..Len(ls) : ls[i].is = "nic" => i \in 1..Len(L) /\ ls[i] = L[i]
        PROVE  R \subseteq S
    BY <1>2, <1>4 DEF OfKind
  <1>5. R \subseteq S => A \subseteq F
    BY DEF NicAlarm, If
  <1>6. ASSUME Entire(L, ls) PROVE A = F
    <2>1. /\ \A i \in 1..Len(L) : i \in 1..Len(ls) /\ ls[i] = L[i]
          /\ \A i \in 1..Len(ls) : ls[i].is # "piece" => i \in 1..Len(L) /\ ls[i] = L[i]
      BY <1>2, <1>6, EntireAt
    <2>2. R \subseteq S
      BY <1>4, <2>1
    <2>3. S \subseteq R
      BY <1>2, <2>1 DEF OfKind
    <2>. HIDE DEF R, S
    <2>4. R = S
      BY <2>2, <2>3
    <2>. QED  BY <2>4
  <1>7. ASSUME NEW m, Cut(L, m, ls) PROVE A \subseteq F
    <2>1. "nic" \notin Changed
      BY DEF Changed, Resized, Counts, Cents, NameKinds
    <2>2. \A i \in 1..Len(ls) : ls[i].is \notin Changed => i \in 1..Len(L) /\ ls[i] = L[i]
      BY <1>2, <1>7, CutPlainAt
    <2>. HIDE DEF A, F
    <2>. QED  BY <1>4, <1>5, <2>1, <2>2
  <1>8. ls = <<>> => A = {}
    BY DEF OfKind, NicAlarm, If
  <1>. HIDE DEF A, F
  <1>9. Agrees(k, c, A, F)
    <2>1. (Entire(L, ls) => A = F)
          /\ \A m : Cut(L, m, ls) => \A w \in A : w \in F \/ w.kind \in MayBeFalse
      BY <1>6, <1>7
    <2>. QED  BY <1>2, <1>3, <1>8, <2>1, AgreesLess
  <1>. QED  BY <1>1, <1>9 DEF A

-----------------------------------------------------------------------------
(* All the sections of triage.                                             *)

\* What is read of the sections of a text that was cut off at c.
SectionsLeft(t, s, c, r) ==
    \A k \in 1..Len(s) : /\ r[k] \in Seq(LineType) /\ Reads(t, s[k].name, r[k])
                         /\ Left(s[k].lines, k, c, r[k])

\* A text left by a run gives the lines of each section.
LEMMA SectionsPicked ==
    ASSUME NEW t, NEW s, NEW c, AllLeft(t, s, c)
    PROVE  \E r : SectionsLeft(t, s, c, r)
  <1>. DEFINE P(k, ls) == Reads(t, s[k].name, ls) /\ Left(s[k].lines, k, c, ls)
              r == [k \in 1..Len(s) |-> CHOOSE ls \in Seq(LineType) : P(k, ls)]
  <1>1. \A k \in 1..Len(s) : \E ls \in Seq(LineType) : P(k, ls)
    BY DEF AllLeft
  <1>. HIDE DEF P
  <1>2. \A k \in 1..Len(s) : r[k] \in Seq(LineType) /\ P(k, r[k])
    BY <1>1
  <1>. HIDE DEF r
  <1>3. SectionsLeft(t, s, c, r)
    BY <1>2 DEF SectionsLeft, P
  <1>. QED  BY <1>3

\* What the sources of host_triage may say.
LEMMA TriageTyped ==
    ASSUME NEW h \in TriageHost
    PROVE  /\ h.disks \in Seq(Nat) /\ h.failed \in Nat /\ h.psiCpu \in Reading
           /\ h.psiMemory \in Reading /\ h.psiIo \in Reading /\ h.oom \in Nat
           /\ h.inodes \in Seq(Nat) /\ h.zombies \in Nat /\ h.stuck \in Nat
           /\ h.offset \in Reading /\ h.leap \in Reading /\ h.taint \in Reading
           /\ h.nics \in Seq(NicLine)
  <1>1. /\ h.disks \in Seq(Nat) /\ h.failed \in Nat /\ h.psiCpu \in Reading
        /\ h.psiMemory \in Reading /\ h.psiIo \in Reading /\ h.oom \in Nat
        /\ h.inodes \in Seq(Nat) /\ h.zombies \in Nat /\ h.stuck \in Nat
        /\ h.offset \in Reading /\ h.leap \in {0, 1, None} /\ h.taint \in Reading
    BY DEF TriageHost
  <1>2. h.nics \in Seq(NicLine)
    BY DEF TriageHost, NicLine
  <1>. QED  BY <1>1, <1>2 DEF Reading

\* Every section of host_triage agrees with the host, as far as its lines were left.
LEMMA TriageAgrees ==
    ASSUME NEW h \in TriageHost, NEW t, NEW c, c.section \in 0..18,
           AllLeft(t, TriageScript(h), c), NEW f, f = TriageFacts(t)
    PROVE  \A k \in 1..18 : Agrees(k, c, Alarms(f)[k], Faults(h)[k])
  <1>. DEFINE s == TriageScript(h)
  <1>1. PICK r : SectionsLeft(t, s, c, r)
    BY SectionsPicked
  <1>2. Len(s) = 18 /\ WellMade(s)
    BY TriageLines, TriageWellMade
  <1>3. TriageReads(t, h, r)
    <2>1. \A k \in 1..18 : Reads(t, s[k].name, r[k]) /\ r[k] \in Seq(LineType)
      BY <1>1, <1>2 DEF SectionsLeft
    <2>2. \A k \in 1..18 : Len(r[k]) \in Nat
      <3>. SUFFICES ASSUME NEW k \in 1..18 PROVE Len(r[k]) \in Nat
        OBVIOUS
      <3>1. r[k] \in Seq(LineType)
        BY <2>1
      <3>. QED  BY <3>1
    <2>. HIDE DEF s
    <2>3. \A k \in 1..18 : Reads(t, s[k].name, r[k]) /\ Len(r[k]) \in Nat
      BY <2>1, <2>2
    <2>. QED  BY <2>3 DEF TriageReads, s
  <1>4. \A k \in 1..18 : Left(s[k].lines, k, c, r[k]) /\ s[k].lines \in Seq(Printed)
    <2>1. \A k \in 1..18 : Left(s[k].lines, k, c, r[k])
      BY <1>1, <1>2 DEF SectionsLeft
    <2>2. \A k \in 1..18 : s[k].lines \in Seq(Printed)
      BY <1>2, LinesOfScript
    <2>. QED  BY <2>1, <2>2
  <1>5. /\ s[1].lines = Said("load1", h.load1) /\ s[2].lines = Said("nproc", h.nproc)
        /\ s[3].lines = Said("MemTotal", h.memTotal) \o Said("MemAvailable", h.memAvailable)
                        \o Said("SwapTotal", h.swapTotal) \o Said("SwapFree", h.swapFree)
        /\ s[4].lines = Table(h.disks) /\ s[5].lines = Times(h.failed, "unit")
        /\ s[6].lines = Said("psi_cpu", h.psiCpu) /\ s[7].lines = Said("psi_memory", h.psiMemory)
        /\ s[8].lines = Said("psi_io", h.psiIo) /\ s[9].lines = Times(h.oom, "oom")
        /\ s[10].lines = Table(h.inodes) /\ s[11].lines = Procs(h.zombies, h.stuck)
        /\ s[13].lines = Both("offset", h.offset, "leap", h.leap)
        /\ s[14].lines = Both("count", h.count, "max", h.max)
        /\ s[15].lines = Reboot(h.reboot) /\ s[16].lines = Said("taint", h.taint)
        /\ s[17].lines = h.nics
    BY TriageLines DEF Procs, Both, Reboot
  <1>6. s[11].name = "ps_states"
    BY TriageNames
  <1>. HIDE DEF s
  <1>7. /\ h.disks \in Seq(Nat) /\ h.failed \in Nat /\ h.psiCpu \in Reading
        /\ h.psiMemory \in Reading /\ h.psiIo \in Reading /\ h.oom \in Nat
        /\ h.inodes \in Seq(Nat) /\ h.zombies \in Nat /\ h.stuck \in Nat
        /\ h.offset \in Reading /\ h.leap \in Reading /\ h.taint \in Reading
        /\ h.nics \in Seq(NicLine)
    BY TriageTyped
  <1>8. TriageTells(f, t, r)
    BY <1>3, TriageRead
  <1>9. /\ f.load1 = FirstIn(r[1], "load1") /\ f.nproc = FirstIn(r[2], "nproc")
        /\ f.disks = PercentsIn(r[4]) /\ f.failed = Len(r[5])
        /\ f.psi["cpu"] = FirstIn(r[6], "psi_cpu")
        /\ f.psi["memory"] = FirstIn(r[7], "psi_memory")
        /\ f.psi["io"] = FirstIn(r[8], "psi_io")
        /\ f.oom = Len(r[9]) /\ f.inodes = PercentsIn(r[10])
        /\ f.zombies = Count(t, "ps_states", "Z") /\ f.stuck = Count(t, "ps_states", "D")
        /\ f.offset = FirstIn(r[13], "offset") /\ f.leap = FirstIn(r[13], "leap")
        /\ f.reboot = HasIn(r[15], "yes") /\ f.taint = FirstIn(r[16], "taint")
        /\ f.nics = OfKind(r[17], 1..Len(r[17]), "nic")
    BY <1>8 DEF TriageTells
  <1>. DEFINE A == Alarms(f)
              F == Faults(h)
  <1>10. /\ A[1] = {} /\ A[2] = LoadWarnings(f) /\ A[3] = MemoryWarnings(f)
         /\ A[4] = Full("disk_full", f.disks) /\ A[5] = If(f.failed > 0, "failed_units")
         /\ A[6] = Pressure("cpu", f.psi["cpu"]) /\ A[7] = Pressure("memory", f.psi["memory"])
         /\ A[8] = Pressure("io", f.psi["io"]) /\ A[9] = OomAlarm(f.oom)
         /\ A[10] = Full("inodes_full", f.inodes)
         /\ A[11] = If(f.zombies >= 1, "zombie_procs") \cup If(f.stuck >= 5, "stuck_procs")
         /\ A[12] = {} /\ A[13] = ClockWarnings(f) /\ A[14] = ConntrackWarnings(f)
         /\ A[15] = If(f.reboot, "reboot_required")
         /\ A[16] = If(f.taint > 0 /\ Faulty(f.taint), "kernel_tainted")
         /\ A[17] = NicAlarm(f.nics) /\ A[18] = {}
    BY DEF Alarms, NicAlarm
  <1>11. /\ F[1] = {} /\ F[2] = LoadFaults(h) /\ F[3] = MemoryFaults(h)
         /\ F[4] = FullFaults("disk_full", h.disks) /\ F[5] = If(h.failed > 0, "failed_units")
         /\ F[6] = Pressure("cpu", h.psiCpu) /\ F[7] = Pressure("memory", h.psiMemory)
         /\ F[8] = Pressure("io", h.psiIo) /\ F[9] = OomAlarm(h.oom)
         /\ F[10] = FullFaults("inodes_full", h.inodes)
         /\ F[11] = If(h.zombies > 0, "zombie_procs") \cup If(h.stuck > 4, "stuck_procs")
         /\ F[12] = {} /\ F[13] = If(h.offset > 10, "clock_skew") \cup If(h.leap = 1, "clock_unsynced")
         /\ F[14] = ConntrackFaults(h) /\ F[15] = If(h.reboot = 1, "reboot_required")
         /\ F[16] = If(Known(h.taint) /\ FaultIn(h.taint), "kernel_tainted")
         /\ F[17] = NicFaults(h) /\ F[18] = {}
    BY DEF Faults
  <1>. HIDE DEF A, F
  <1>12. ASSUME NEW k \in {1, 12, 18} PROVE Agrees(k, c, A[k], F[k])
    <2>1. A[k] = {} /\ F[k] = {}
      BY <1>10, <1>11
    <2>. QED  BY <2>1 DEF Agrees
  <1>13. Agrees(2, c, A[2], F[2])
    <2>1. Left(Said("load1", h.load1), 1, c, r[1]) /\ Left(Said("nproc", h.nproc), 2, c, r[2])
      BY <1>4, <1>5
    <2>. QED  BY <1>9, <1>10, <1>11, <2>1, SectionLoad
  <1>14. Agrees(3, c, A[3], F[3])
    <2>1. Left(s[3].lines, 3, c, r[3]) /\ s[3].lines \in Seq(Printed)
      BY <1>4
    <2>. DEFINE L == s[3].lines
                ls == r[3]
    <2>2. /\ L = Said("MemTotal", h.memTotal) \o Said("MemAvailable", h.memAvailable)
                 \o Said("SwapTotal", h.swapTotal) \o Said("SwapFree", h.swapFree)
          /\ L \in Seq(Printed) /\ Left(L, 3, c, ls)
          /\ f.memTotal = FirstIn(ls, "MemTotal") /\ f.memAvailable = FirstIn(ls, "MemAvailable")
          /\ f.swapTotal = FirstIn(ls, "SwapTotal") /\ f.swapFree = FirstIn(ls, "SwapFree")
      BY <1>5, <1>8, <2>1 DEF TriageTells
    <2>. HIDE DEF L, ls
    <2>3. Agrees(3, c, MemoryWarnings(f), MemoryFaults(h))
      BY <2>2, SectionMemory
    <2>. QED  BY <1>10, <1>11, <2>3
  <1>15. Agrees(4, c, A[4], F[4]) /\ Agrees(10, c, A[10], F[10])
    <2>1. Left(Table(h.disks), 4, c, r[4]) /\ Left(Table(h.inodes), 10, c, r[10])
      BY <1>4, <1>5
    <2>2. 4 \in 1..18 /\ 10 \in 1..18
      OBVIOUS
    <2>3. Agrees(4, c, Full("disk_full", PercentsIn(r[4])), FullFaults("disk_full", h.disks))
      BY <1>7, <2>1, <2>2, SectionTable
    <2>4. Agrees(10, c, Full("inodes_full", PercentsIn(r[10])), FullFaults("inodes_full", h.inodes))
      BY <1>7, <2>1, <2>2, SectionTable
    <2>. QED  BY <1>9, <1>10, <1>11, <2>3, <2>4
  <1>16. Agrees(5, c, A[5], F[5]) /\ Agrees(9, c, A[9], F[9])
    <2>. DEFINE X == Warn("failed_units")
                Y == {Warning("oom_recent", "crit", "")}
                m == h.failed
                n == h.oom
    <2>1. /\ Left(Times(h.failed, "unit"), 5, c, r[5]) /\ Left(Times(h.oom, "oom"), 9, c, r[9])
          /\ 5 \in 1..18 /\ 9 \in 1..18
      BY <1>4, <1>5
    <2>2. "unit" \in Words /\ "oom" \in Words
      BY DEF Words, Begun
    <2>3. (\A w \in X : w.kind \in MayBeFalse) /\ \A w \in Y : w.kind \in MayBeFalse
      BY DEF Warn, Warning, MayBeFalse
    <2>. HIDE DEF X, Y
    <2>4. Agrees(5, c, IF Len(r[5]) > 0 THEN X ELSE {}, IF h.failed > 0 THEN X ELSE {})
      <3>1. m \in Nat
        BY <1>7
      <3>. QED  BY <2>1, <2>2, <2>3, <3>1, SectionCounted
    <2>5. Agrees(9, c, IF Len(r[9]) > 0 THEN Y ELSE {}, IF h.oom > 0 THEN Y ELSE {})
      <3>1. n \in Nat
        BY <1>7
      <3>. QED  BY <2>1, <2>2, <2>3, <3>1, SectionCounted
    <2>6. /\ A[5] = (IF Len(r[5]) > 0 THEN X ELSE {}) /\ F[5] = (IF h.failed > 0 THEN X ELSE {})
          /\ A[9] = (IF Len(r[9]) > 0 THEN Y ELSE {}) /\ F[9] = (IF h.oom > 0 THEN Y ELSE {})
      BY <1>9, <1>10, <1>11 DEF If, OomAlarm, X, Y
    <2>. QED  BY <2>4, <2>5, <2>6
  <1>17. Agrees(6, c, A[6], F[6]) /\ Agrees(7, c, A[7], F[7]) /\ Agrees(8, c, A[8], F[8])
    <2>1. /\ Left(Said("psi_cpu", h.psiCpu), 6, c, r[6])
          /\ Left(Said("psi_memory", h.psiMemory), 7, c, r[7])
          /\ Left(Said("psi_io", h.psiIo), 8, c, r[8])
          /\ 6 \in 1..18 /\ 7 \in 1..18 /\ 8 \in 1..18
      BY <1>4, <1>5
    <2>2. /\ Agrees(6, c, Pressure("cpu", FirstIn(r[6], "psi_cpu")), Pressure("cpu", h.psiCpu))
          /\ Agrees(7, c, Pressure("memory", FirstIn(r[7], "psi_memory")), Pressure("memory", h.psiMemory))
          /\ Agrees(8, c, Pressure("io", FirstIn(r[8], "psi_io")), Pressure("io", h.psiIo))
      BY <1>7, <2>1, SectionPressure
    <2>. QED  BY <1>9, <1>10, <1>11, <2>2
  <1>18. Agrees(11, c, A[11], F[11])
    <2>. DEFINE L == s[11].lines
                ls == r[11]
                z == h.zombies
                d == h.stuck
    <2>1. /\ Left(L, 11, c, ls) /\ L = Procs(z, d) /\ 11 \in 1..18
          /\ z \in Nat /\ d \in Nat
      BY <1>4, <1>5, <1>7
    <2>2. Reads(t, "ps_states", ls) /\ ls \in Seq(LineType)
      <3>1. 11 \in 1..Len(s)
        BY <1>2
      <3>. QED  BY <1>1, <1>6, <3>1 DEF SectionsLeft
    <2>. HIDE DEF L, ls, z, d
    <2>3. f.zombies = Count(t, "ps_states", "Z") /\ f.stuck = Count(t, "ps_states", "D")
      BY <1>9
    <2>4. Agrees(11, c, If(f.zombies >= 1, "zombie_procs") \cup If(f.stuck >= 5, "stuck_procs"),
                 If(z > 0, "zombie_procs") \cup If(d > 4, "stuck_procs"))
      BY <2>1, <2>2, <2>3, SectionProcs
    <2>. QED  BY <1>10, <1>11, <2>4 DEF z, d
  <1>19. Agrees(13, c, A[13], F[13])
    <2>. DEFINE ls == r[13]
                o == h.offset
                p == h.leap
                L == Both("offset", o, "leap", p)
    <2>1. /\ Left(L, 13, c, ls) /\ o \in Reading /\ p \in Reading
          /\ f.offset = FirstIn(ls, "offset") /\ f.leap = FirstIn(ls, "leap")
      BY <1>4, <1>5, <1>7, <1>9
    <2>. HIDE DEF ls, o, p
    <2>2. Agrees(13, c, ClockWarnings(f), If(o > 10, "clock_skew") \cup If(p = 1, "clock_unsynced"))
      BY <2>1, SectionClock
    <2>. QED  BY <1>10, <1>11, <2>2 DEF o, p
  <1>20. Agrees(14, c, A[14], F[14])
    <2>. DEFINE ls == r[14]
                L == Both("count", h.count, "max", h.max)
    <2>1. /\ Left(L, 14, c, ls)
          /\ f.count = IF HasIn(ls, "count") /\ HasIn(ls, "max") THEN FirstIn(ls, "count") ELSE None
          /\ f.max = IF HasIn(ls, "count") /\ HasIn(ls, "max") THEN FirstIn(ls, "max") ELSE None
      BY <1>4, <1>5, <1>8 DEF TriageTells
    <2>. HIDE DEF ls
    <2>2. Agrees(14, c, ConntrackWarnings(f), ConntrackFaults(h))
      BY <2>1, SectionConntrack
    <2>. QED  BY <1>10, <1>11, <2>2
  <1>21. Agrees(15, c, A[15], F[15])
    <2>1. Left(Reboot(h.reboot), 15, c, r[15]) /\ 15 \in 1..18
      BY <1>4, <1>5
    <2>2. Agrees(15, c, If(HasIn(r[15], "yes"), "reboot_required"), If(h.reboot = 1, "reboot_required"))
      BY <2>1, SectionReboot
    <2>. QED  BY <1>9, <1>10, <1>11, <2>2
  <1>22. Agrees(16, c, A[16], F[16])
    <2>. DEFINE n == h.taint
                L == Said("taint", n)
    <2>1. Left(L, 16, c, r[16]) /\ n \in Reading /\ f.taint = FirstIn(r[16], "taint")
      BY <1>4, <1>5, <1>7, <1>9
    <2>. HIDE DEF n
    <2>2. Agrees(16, c, If(f.taint > 0 /\ Faulty(f.taint), "kernel_tainted"),
                 If(Known(n) /\ FaultIn(n), "kernel_tainted"))
      BY <2>1, SectionTaint
    <2>. QED  BY <1>10, <1>11, <2>2 DEF n
  <1>23. Agrees(17, c, A[17], F[17])
    <2>1. Left(s[17].lines, 17, c, r[17]) /\ s[17].lines \in Seq(Printed) /\ 17 \in 1..18
      BY <1>4
    <2>2. Left(h.nics, 17, c, r[17]) /\ h.nics \in Seq(Printed) /\ 17 \in 1..18
      BY <1>5, <2>1
    <2>3. Agrees(17, c, NicAlarm(OfKind(r[17], 1..Len(r[17]), "nic")), NicFaults(h))
      BY <1>7, <2>2, SectionNics
    <2>. QED  BY <1>9, <1>10, <1>11, <2>3
  <1>24. ASSUME NEW k \in 1..18 PROVE Agrees(k, c, A[k], F[k])
    <2>1. k \in {1, 12, 18} \/ k \in {2, 3, 4, 5, 6, 7, 8, 9, 10, 11} \/ k \in {13, 14, 15, 16, 17}
      OBVIOUS
    <2>2. CASE k \in {1, 12, 18}
      BY <1>12, <2>2
    <2>3. CASE k \in {2, 3, 4, 5, 6, 7, 8, 9, 10, 11}
      BY <1>13, <1>14, <1>15, <1>16, <1>17, <1>18, <2>3
    <2>4. CASE k \in {13, 14, 15, 16, 17}
      BY <1>19, <1>20, <1>21, <1>22, <1>23, <2>4
    <2>. QED  BY <2>1, <2>2, <2>3, <2>4
  <1>. QED  BY <1>24 DEF A, F

\* A report that came through whole warns of what is wrong.
LEMMA TriageWhole ==
    ASSUME NEW h \in TriageHost, NEW t, NEW c, c.section = 0, AllLeft(t, TriageScript(h), c)
    PROVE  Warnings(TriageFacts(t)) = Troubles(h)
  <1>. DEFINE A == Alarms(TriageFacts(t))
              F == Faults(h)
  <1>1. \A k \in 1..18 : Agrees(k, c, A[k], F[k])
    <2>1. c.section \in 0..18
      OBVIOUS
    <2>. QED  BY <2>1, TriageAgrees
  <1>. HIDE DEF A, F
  <1>2. ASSUME NEW k \in 1..18 PROVE A[k] = F[k]
    <2>1. k # 0 /\ k + 1 # 0
      OBVIOUS
    <2>2. Agrees(k, c, A[k], F[k])
      BY <1>1
    <2>. QED  BY <2>1, <2>2 DEF Agrees
  <1>3. Joined(A) = Joined(F)
    BY <1>2 DEF Joined
  <1>. QED  BY <1>3, WarningsBySection, TroublesBySection DEF A, F

\* What a report that was cut off says.
LEMMA TriageCut ==
    ASSUME NEW h \in TriageHost, NEW t, NEW c, c.section \in 1..18, AllLeft(t, TriageScript(h), c),
           NEW ws, ws = Warnings(TriageFacts(t))
    PROVE  /\ \A w \in Troubles(h) \ ws : SectionOf(w) >= c.section
           /\ \A w \in ws \ Troubles(h) :
                /\ w.kind \in MayBeFalse
                /\ \/ SectionOf(w) = c.section
                   \/ SectionOf(w) = c.section - 1 /\ c.line = 1
  <1>. DEFINE A == Alarms(TriageFacts(t))
              F == Faults(h)
              m == c.section
  <1>1. \A k \in 1..18 : Agrees(k, c, A[k], F[k])
    <2>1. c.section \in 0..18
      OBVIOUS
    <2>. QED  BY <2>1, TriageAgrees
  <1>2. /\ \A k \in 1..18 : \A w \in A[k] : SectionOf(w) = k
        /\ \A k \in 1..18 : \A w \in F[k] : SectionOf(w) = k
    BY AlarmsPlaced, FaultsPlaced DEF PlacedAll, Placed
  <1>3. ws = Joined(A) /\ Troubles(h) = Joined(F)
    BY WarningsBySection, TroublesBySection
  <1>. HIDE DEF A, F
  <1>4. /\ \A w : w \in ws <=> \E k \in 1..18 : w \in A[k]
        /\ \A w : w \in Troubles(h) <=> \E k \in 1..18 : w \in F[k]
    BY <1>3, JoinedIn
  <1>5. m \in 1..18
    OBVIOUS
  <1>6. ASSUME NEW w \in Troubles(h) \ ws PROVE SectionOf(w) >= m
    <2>1. PICK k \in 1..18 : w \in F[k]
      BY <1>4
    <2>2. w \notin A[k] /\ SectionOf(w) = k
      BY <1>2, <1>4, <2>1
    <2>3. ~(k < c.section)
      BY <1>1, <2>1, <2>2 DEF Agrees
    <2>. HIDE DEF m
    <2>4. ~(k < m)
      BY <2>3 DEF m
    <2>. QED  BY <1>5, <2>2, <2>4
  <1>7. ASSUME NEW w \in ws \ Troubles(h)
        PROVE  /\ w.kind \in MayBeFalse
               /\ \/ SectionOf(w) = m
                  \/ SectionOf(w) = m - 1 /\ c.line = 1
    <2>1. PICK k \in 1..18 : w \in A[k]
      BY <1>4
    <2>2. w \notin F[k] /\ SectionOf(w) = k
      BY <1>2, <1>4, <2>1
    <2>3. w.kind \in MayBeFalse /\ (k = m \/ (k + 1 = m /\ c.line = 1))
      BY <1>1, <2>1, <2>2 DEF Agrees
    <2>. HIDE DEF m
    <2>4. k + 1 = m => k = m - 1
      BY <1>5
    <2>. QED  BY <2>2, <2>3, <2>4
  <1>. QED  BY <1>6, <1>7

-----------------------------------------------------------------------------
(* What host_facts reads.                                                  *)

\* All of the text of a section.
TextIn(ls, is) == CASE Len(ls) = 0 -> None
                    [] Len(ls) = 1 /\ ls[1].is = is -> FirstIn(ls, is)
                    [] OTHER -> Garbled

OrNone(n) == IF n = None THEN 0 ELSE n
FactsTold(r) ==
    [ id |-> FirstIn(r[1], "ID"),
      kernel |-> FirstIn(r[2], "uname") >= 2,
      arch |-> IF FirstIn(r[2], "uname") < 3 THEN None ELSE TextIn(r[2], "uname"),
      nproc |-> FirstIn(r[3], "nproc"), memTotal |-> FirstIn(r[4], "MemTotal"),
      hypervisor |-> OrNone(TextIn(r[5], "virt")), container |-> OrNone(TextIn(r[6], "container")),
      vendor |-> TextIn(r[7], "vendor"), product |-> TextIn(r[8], "product"),
      isVirtual |-> Virtual(OrNone(TextIn(r[5], "virt")), FirstIn(r[7], "vendor"),
                            FirstIn(r[8], "product")),
      has |-> NumbersOf(r[9], 1..Len(r[9]), "has"),
      hasNot |-> NumbersOf(r[9], 1..Len(r[9]), "has not"),
      uptime |-> FirstIn(r[10], "uptime"), now |-> TextIn(r[11], "now"),
      user |-> TextIn(r[12], "user") ]

\* The text of a section is that of its lines.
LEMMA ReadText ==
    ASSUME NEW t, NEW name, NEW ls, Len(ls) \in Nat, Reads(t, name, ls), NEW is
    PROVE  SectionText(t, name, is) = TextIn(ls, is)
  <1>. DEFINE U == Under(t, name)
              n == Len(ls)
              one == \E i \in U : U = {i} /\ t[i].is = is
  <1>1. PICK m \in Nat : U = (m + 1) .. (m + n) /\ \A i \in 1..n : t[m + i] = ls[i]
    BY DEF Reads
  <1>2. First(t, U, is) = FirstIn(ls, is)
    BY ReadFirst
  <1>3. U = {} <=> n = 0
    <2>1. n \in Nat
      OBVIOUS
    <2>. HIDE DEF n
    <2>2. n # 0 => m + 1 \in (m + 1) .. (m + n)
      BY <2>1
    <2>3. n = 0 => (m + 1) .. (m + n) = {}
      OBVIOUS
    <2>. HIDE DEF U
    <2>. QED  BY <1>1, <2>2, <2>3
  <1>4. one <=> n = 1 /\ ls[1].is = is
    <2>1. ASSUME NEW i \in U, U = {i}, t[i].is = is PROVE n = 1 /\ ls[1].is = is
      <3>1. n = 1
        <4>1. n # 0
          BY <1>3, <2>1
        <4>2. m + 1 \in U /\ m + n \in U
          BY <1>1, <4>1
        <4>3. m + 1 = m + n
          BY <2>1, <4>2
        <4>4. n \in Nat
          OBVIOUS
        <4>. HIDE DEF n
        <4>. QED  BY <4>3, <4>4
      <3>2. i = m + 1 /\ t[m + 1] = ls[1]
        BY <1>1, <2>1, <3>1
      <3>. QED  BY <2>1, <3>1, <3>2
    <2>2. ASSUME n = 1, ls[1].is = is PROVE one
      <3>1. U = {m + 1} /\ t[m + 1] = ls[1]
        BY <1>1, <2>2
      <3>. QED  BY <2>2, <3>1
    <2>. QED  BY <2>1, <2>2
  <1>5. SectionText(t, name, is) = CASE U = {} -> None
                                     [] one -> First(t, U, is)
                                     [] OTHER -> Garbled
    BY DEF SectionText
  <1>6. TextIn(ls, is) = CASE n = 0 -> None
                           [] n = 1 /\ ls[1].is = is -> FirstIn(ls, is)
                           [] OTHER -> Garbled
    BY DEF TextIn
  <1>. HIDE DEF U, n, one
  <1>7. CASE n = 0
    BY <1>3, <1>4, <1>5, <1>6, <1>7
  <1>8. CASE n # 0
    BY <1>2, <1>3, <1>4, <1>5, <1>6, <1>8
  <1>. QED  BY <1>7, <1>8

\* Each fact of host_facts is read from the lines of its own sections.
LEMMA FactsReadBack ==
    ASSUME NEW t, NEW h, NEW c, NEW r, SectionsLeft(t, FactsScript(h), c, r)
    PROVE  FactsRead(t) = FactsTold(r)
  <1>. DEFINE s == FactsScript(h)
              A(x, k) == /\ Len(r[k]) \in Nat /\ Reads(t, x, r[k])
                         /\ \A is : /\ First(t, Under(t, x), is) = FirstIn(r[k], is)
                                    /\ SectionText(t, x, is) = TextIn(r[k], is)
  <1>1. ASSUME NEW k \in 1..13 PROVE A(s[k].name, k)
    <2>1. Len(s) = 13
      BY FactsNames
    <2>2. r[k] \in Seq(LineType) /\ Reads(t, s[k].name, r[k])
      BY <2>1 DEF SectionsLeft
    <2>. HIDE DEF s
    <2>3. Len(r[k]) \in Nat
      BY <2>2
    <2>. QED  BY <2>2, <2>3, ReadFirst, ReadText
  <1>2. /\ s[1].name = "os_release" /\ s[2].name = "uname" /\ s[3].name = "nproc"
        /\ s[4].name = "mem_total" /\ s[5].name = "virt" /\ s[6].name = "container"
        /\ s[7].name = "dmi_vendor" /\ s[8].name = "dmi_product" /\ s[9].name = "capabilities"
        /\ s[10].name = "uptime" /\ s[11].name = "now_utc" /\ s[12].name = "whoami"
    BY FactsNames
  <1>. HIDE DEF s, A
  <1>3. /\ A("os_release", 1) /\ A("uname", 2) /\ A("nproc", 3) /\ A("mem_total", 4)
        /\ A("virt", 5) /\ A("container", 6) /\ A("dmi_vendor", 7) /\ A("dmi_product", 8)
        /\ A("capabilities", 9) /\ A("uptime", 10) /\ A("now_utc", 11) /\ A("whoami", 12)
    <2>1. \A x : \A k \in 1..13 : s[k].name = x => A(x, k)
      BY <1>1
    <2>. QED  BY <1>2, <2>1
  <1>. DEFINE number(name, is) == First(t, Under(t, name), is)
  <1>4. /\ number("os_release", "ID") = FirstIn(r[1], "ID")
        /\ number("uname", "uname") = FirstIn(r[2], "uname")
        /\ number("nproc", "nproc") = FirstIn(r[3], "nproc")
        /\ number("mem_total", "MemTotal") = FirstIn(r[4], "MemTotal")
        /\ number("dmi_vendor", "vendor") = FirstIn(r[7], "vendor")
        /\ number("dmi_product", "product") = FirstIn(r[8], "product")
        /\ number("uptime", "uptime") = FirstIn(r[10], "uptime")
    BY <1>3 DEF A
  <1>5. /\ SectionText(t, "uname", "uname") = TextIn(r[2], "uname")
        /\ SectionText(t, "virt", "virt") = TextIn(r[5], "virt")
        /\ SectionText(t, "container", "container") = TextIn(r[6], "container")
        /\ SectionText(t, "dmi_vendor", "vendor") = TextIn(r[7], "vendor")
        /\ SectionText(t, "dmi_product", "product") = TextIn(r[8], "product")
        /\ SectionText(t, "now_utc", "now") = TextIn(r[11], "now")
        /\ SectionText(t, "whoami", "user") = TextIn(r[12], "user")
    BY <1>3 DEF A
  <1>6. /\ Has(t) = NumbersOf(r[9], 1..Len(r[9]), "has")
        /\ HasNot(t) = NumbersOf(r[9], 1..Len(r[9]), "has not")
    <2>. DEFINE ls == r[9]
    <2>1. Len(ls) \in Nat /\ Reads(t, "capabilities", ls)
      BY <1>3 DEF A
    <2>. HIDE DEF ls
    <2>2. /\ NumbersOf(t, Under(t, "capabilities"), "has") = NumbersOf(ls, 1..Len(ls), "has")
          /\ NumbersOf(t, Under(t, "capabilities"), "has not") = NumbersOf(ls, 1..Len(ls), "has not")
      BY <2>1, ReadKind
    <2>3. /\ Has(t) = NumbersOf(t, Under(t, "capabilities"), "has")
          /\ HasNot(t) = NumbersOf(t, Under(t, "capabilities"), "has not")
      BY DEF Has, HasNot, NumbersOf
    <2>. QED  BY <2>2, <2>3 DEF ls
  <1>7. FactsRead(t) =
          [ id |-> number("os_release", "ID"), kernel |-> number("uname", "uname") >= 2,
            arch |-> IF number("uname", "uname") < 3 THEN None
                     ELSE SectionText(t, "uname", "uname"),
            nproc |-> number("nproc", "nproc"), memTotal |-> number("mem_total", "MemTotal"),
            hypervisor |-> OrNone(SectionText(t, "virt", "virt")),
            container |-> OrNone(SectionText(t, "container", "container")),
            vendor |-> SectionText(t, "dmi_vendor", "vendor"),
            product |-> SectionText(t, "dmi_product", "product"),
            isVirtual |-> Virtual(OrNone(SectionText(t, "virt", "virt")),
                                  number("dmi_vendor", "vendor"), number("dmi_product", "product")),
            has |-> Has(t), hasNot |-> HasNot(t),
            uptime |-> number("uptime", "uptime"),
            now |-> SectionText(t, "now_utc", "now"), user |-> SectionText(t, "whoami", "user") ]
    BY DEF FactsRead, OrNone
  <1>. HIDE DEF number
  <1>. QED  BY <1>4, <1>5, <1>6, <1>7 DEF FactsTold

\* The capabilities: section 9.
Caps(h) == [t \in 1..Binaries |-> Line(IF t \in h.binaries THEN "has" ELSE "has not", t)]

\* The section of capabilities has a line for each binary, in their order.
LEMMA CapsLines ==
    ASSUME NEW h \in FactsHost
    PROVE  /\ Caps(h) \in Seq(Printed) /\ Len(Caps(h)) = Binaries
           /\ \A t \in 1..Binaries : /\ Caps(h)[t].n = t
                                     /\ t \in h.binaries => Caps(h)[t].is = "has"
                                     /\ t \notin h.binaries => Caps(h)[t].is = "has not"
           /\ h.binaries \subseteq 1..Binaries
  <1>. DEFINE s == FactsScript(h)
  <1>1. Len(s) = 13 /\ s[9].lines = Caps(h)
    BY FactsLines DEF Caps
  <1>2. WellMade(s)
    BY FactsWellMade
  <1>. HIDE DEF s
  <1>3. Caps(h) \in Seq(Printed)
    <2>1. s[9].lines \in Seq(Printed)
      <3>1. 9 \in 1..Len(s)
        BY <1>1
      <3>. QED  BY <1>2, <3>1, LinesOfScript
    <2>. QED  BY <1>1, <2>1
  <1>4. Len(Caps(h)) = Binaries
    BY DEF Caps, Binaries
  <1>5. \A t \in 1..Binaries : /\ Caps(h)[t].n = t
                               /\ t \in h.binaries => Caps(h)[t].is = "has"
                               /\ t \notin h.binaries => Caps(h)[t].is = "has not"
    BY DEF Caps, Line
  <1>6. h.binaries \subseteq 1..Binaries
    BY DEF FactsHost
  <1>. QED  BY <1>3, <1>4, <1>5, <1>6

\* Printed to its end, it tells which binaries the host has.
LEMMA CapsWhole ==
    ASSUME NEW h \in FactsHost, NEW ls, Entire(Caps(h), ls)
    PROVE  /\ NumbersOf(ls, 1..Len(ls), "has") = h.binaries
           /\ NumbersOf(ls, 1..Len(ls), "has not") = (1..Binaries) \ h.binaries
  <1>. DEFINE L == Caps(h)
              B == h.binaries
              N == 1..Binaries
  <1>1. /\ L \in Seq(Printed) /\ Len(L) = Binaries
        /\ \A t \in N : /\ L[t].n = t
                        /\ t \in B => L[t].is = "has"
                        /\ t \notin B => L[t].is = "has not"
        /\ B \subseteq N
    BY CapsLines
  <1>2. Entire(L, ls)
    OBVIOUS
  <1>. HIDE DEF L
  <1>3. /\ \A i \in 1..Len(L) : i \in 1..Len(ls) /\ ls[i] = L[i]
        /\ \A i \in 1..Len(ls) : ls[i].is # "piece" => i \in 1..Len(L) /\ ls[i] = L[i]
    <2>1. L \in Seq(Printed)
      BY <1>1
    <2>. QED  BY <1>2, <2>1, EntireAt
  <1>4. /\ \A i \in N : i \in 1..Len(ls) /\ ls[i] = L[i]
        /\ \A i \in 1..Len(ls) : ls[i].is # "piece" => i \in N /\ ls[i] = L[i]
    BY <1>1, <1>3
  <1>. HIDE DEF B, N
  <1>5. NumbersOf(ls, 1..Len(ls), "has") = B
    <2>1. ASSUME NEW i \in 1..Len(ls), ls[i].is = "has" PROVE ls[i].n \in B
      BY <1>1, <1>4, <2>1
    <2>2. ASSUME NEW i \in B PROVE i \in 1..Len(ls) /\ ls[i].is = "has" /\ ls[i].n = i
      BY <1>1, <1>4
    <2>. QED  BY <2>1, <2>2 DEF NumbersOf
  <1>6. NumbersOf(ls, 1..Len(ls), "has not") = N \ B
    <2>1. ASSUME NEW i \in 1..Len(ls), ls[i].is = "has not" PROVE ls[i].n \in N \ B
      BY <1>1, <1>4, <2>1
    <2>2. ASSUME NEW i \in N \ B PROVE i \in 1..Len(ls) /\ ls[i].is = "has not" /\ ls[i].n = i
      BY <1>1, <1>4
    <2>. QED  BY <2>1, <2>2 DEF NumbersOf
  <1>. QED  BY <1>5, <1>6 DEF B, N

\* Cut, it denies at most the binary at the cut, which is then the last it names.
LEMMA CapsCut ==
    ASSUME NEW h \in FactsHost, NEW c, c.line \in Int, NEW ls, Left(Caps(h), 9, c, ls)
    PROVE  /\ NumbersOf(ls, 1..Len(ls), "has") \subseteq h.binaries
           /\ \A t \in NumbersOf(ls, 1..Len(ls), "has not") \cap h.binaries :
                 /\ c.section = 9 /\ c.line = t + 1
                 /\ \A u \in NumbersOf(ls, 1..Len(ls), "has") : u < t
  <1>. DEFINE L == Caps(h)
              B == h.binaries
              N == 1..Binaries
              X == NumbersOf(ls, 1..Len(ls), "has")
              Y == NumbersOf(ls, 1..Len(ls), "has not")
  <1>1. /\ L \in Seq(Printed) /\ Len(L) = Binaries
        /\ \A t \in N : /\ L[t].n = t
                        /\ t \in B => L[t].is = "has"
                        /\ t \notin B => L[t].is = "has not"
        /\ B \subseteq N
    BY CapsLines
  <1>2. Left(L, 9, c, ls)
    OBVIOUS
  <1>3. CASE Entire(L, ls)
    BY <1>3, CapsWhole
  <1>. HIDE DEF L
  <1>4. CASE c.section = 9 /\ Cut(L, c.line - 1, ls)
    <2>. DEFINE m == c.line - 1
    <2>1. Cut(L, m, ls)
      BY <1>4
    <2>. HIDE DEF m
    <2>2. Len(ls) \in Nat /\ Len(ls) <= Len(L)
      <3>1. ls \in Seq(Printed) /\ Len(ls) <= Len(L)
        BY <2>1 DEF Cut
      <3>. QED  BY <3>1
    <2>3. \A i \in 1..Len(ls) : ls[i].is \notin Changed => i \in 1..Len(L) /\ ls[i] = L[i]
      <3>1. L \in Seq(Printed)
        BY <1>1
      <3>. QED  BY <2>1, <3>1, CutPlainAt
    <2>4. "has" \notin Changed
      BY DEF Changed, Resized, Counts, Cents, NameKinds
    <2>5. \A i \in 1..Len(ls) : ls[i].is = "has" => i \in N /\ ls[i] = L[i]
      BY <1>1, <2>3, <2>4
    <2>6. ASSUME NEW i \in 1..Len(ls), ls[i].is = "has" PROVE ls[i].n = i /\ i \in B
      BY <1>1, <2>5, <2>6
    <2>7. X \subseteq B
      BY <2>6 DEF NumbersOf
    <2>8. ASSUME NEW i \in 1..Len(ls), ls[i].is = "has not"
          PROVE  ls[i].n = i /\ (i \in B => i = m /\ i = Len(ls))
      <3>1. i \in 1..Len(L)
        <4>1. Len(L) \in Nat
          <5>1. L \in Seq(Printed)
            BY <1>1
          <5>. QED  BY <5>1
        <4>. QED  BY <2>2, <4>1
      <3>2. i \in N
        BY <1>1, <3>1
      <3>3. L \in Seq(Printed)
        BY <1>1
      <3>4. i \in N /\ L[i] \in Printed
        BY <3>1, <3>2, <3>3
      <3>5. CASE ls[i] = L[i]
        BY <1>1, <2>8, <3>4, <3>5
      <3>6. CASE i = m /\ i = Len(ls) /\ ls[i] \in CutLines(L[i])
        <4>1. L[i].n = i /\ L[i].is \in {"has", "has not"}
          BY <1>1, <3>4
        <4>2. L[i].is \notin Resized /\ L[i].is # "row"
          BY <4>1 DEF Resized, Counts, Cents, NameKinds
        <4>3. ls[i] # Piece
          <5>1. Piece.is = "piece"
            BY DEF Piece, Line
          <5>. QED  BY <2>8, <5>1
        <4>4. ls[i] = L[i] \/ ls[i] = Line("has not", L[i].n)
          BY <3>4, <3>6, <4>2, <4>3, CutKinds
        <4>5. Line("has not", L[i].n).n = i
          BY <4>1 DEF Line
        <4>. QED  BY <3>6, <4>1, <4>4, <4>5
      <3>. QED  BY <2>1, <3>5, <3>6 DEF Cut
    <2>. HIDE DEF X, Y
    <2>9. ASSUME NEW t \in Y \cap B PROVE c.line = t + 1 /\ \A u \in X : u < t
      <3>1. PICK i \in 1..Len(ls) : ls[i].is = "has not" /\ t = ls[i].n
        BY DEF NumbersOf, Y
      <3>2. t = i /\ t = m /\ t = Len(ls)
        BY <2>8, <2>9, <3>1
      <3>3. ASSUME NEW u \in X PROVE u < t
        <4>1. PICK j \in 1..Len(ls) : ls[j].is = "has" /\ u = ls[j].n
          BY DEF NumbersOf, X
        <4>2. u = j /\ j # i
          BY <2>6, <3>1, <4>1
        <4>3. j \in Nat /\ j <= Len(ls)
          BY <2>2, <4>1
        <4>4. j < Len(ls)
          BY <2>2, <3>2, <4>2, <4>3
        <4>. QED  BY <3>2, <4>2, <4>4
      <3>4. t \in Nat /\ c.line - 1 = t
        BY <2>2, <3>2 DEF m
      <3>5. c.line = t + 1
        <4>. DEFINE n == c.line
        <4>1. n \in Int /\ t \in Nat /\ n - 1 = t
          BY <3>4
        <4>. HIDE DEF n
        <4>2. n = t + 1
          BY <4>1
        <4>. QED  BY <4>2 DEF n
      <3>. QED  BY <3>3, <3>5
    <2>. QED  BY <1>4, <2>7, <2>9 DEF X, Y
  <1>5. CASE ls = <<>>
    BY <1>5 DEF NumbersOf
  <1>. QED  BY <1>2, <1>3, <1>4, <1>5 DEF Left, Entire

\* What a source said in a section printed to its end is read back.
LEMMA SaidRead ==
    ASSUME NEW is \in Words, is # "piece", NEW n \in Reading, NEW ls, Entire(Said(is, n), ls)
    PROVE  FirstIn(ls, is) = n
  <1>. DEFINE L == Said(is, n)
  <1>1. L \in Seq(Printed)
    BY SaidTyped
  <1>2. FirstIn(L, is) = n
    BY FirstSaid
  <1>. HIDE DEF L
  <1>3. L \in Seq(LineType)
    BY <1>1, PrintedLines
  <1>4. Entire(L, ls)
    BY DEF L
  <1>. QED  BY <1>2, <1>3, <1>4, EntireRead

\* So is all of the text of the section, but for a piece of the next marker.
LEMMA SaidText ==
    ASSUME NEW is \in Words, is # "piece", NEW n \in Reading, NEW ls, Entire(Said(is, n), ls)
    PROVE  \/ TextIn(ls, is) = n
           \/ TextIn(ls, is) = Garbled /\ ls # Said(is, n)
  <1>. DEFINE L == Said(is, n)
              e == L \o <<Piece>>
  <1>1. CASE ls = L
    <2>1. CASE n = None
      <3>1. Len(L) = 0
        BY <2>1 DEF Said
      <3>. HIDE DEF L
      <3>. QED  BY <1>1, <2>1, <3>1 DEF TextIn
    <2>2. CASE n # None
      <3>1. Len(L) = 1 /\ L[1].is = is
        BY <2>2 DEF Said, Line
      <3>2. FirstIn(L, is) = n
        BY FirstSaid
      <3>. HIDE DEF L
      <3>3. ~(Len(L) = 0)
        BY <3>1
      <3>. QED  BY <1>1, <3>1, <3>2, <3>3 DEF TextIn
    <2>. QED  BY <2>1, <2>2
  <1>2. CASE ls = e
    <2>1. L \in Seq(Printed)
      BY SaidTyped
    <2>. HIDE DEF L
    <2>2. Len(L) \in Nat /\ Len(e) = Len(L) + 1 /\ e[Len(L) + 1].is = "piece"
      BY <2>1, PieceAfter
    <2>. HIDE DEF e
    <2>3. ls # L
      BY <1>2, <2>2
    <2>4. Len(ls) # 0
      BY <1>2, <2>2
    <2>5. Len(ls) = 1 => ls[1].is # is
      <3>1. Len(ls) = 1 => Len(L) + 1 = 1
        BY <1>2, <2>2
      <3>. QED  BY <1>2, <2>2, <3>1
    <2>6. TextIn(ls, is) = Garbled
      BY <2>4, <2>5 DEF TextIn
    <2>. QED  BY <2>3, <2>6 DEF L
  <1>. QED  BY <1>1, <1>2 DEF Entire

\* A fact whose section was printed to its end, and those before without a
\* piece more, is that of the host, or it is garbled.
LEMMA FactsSame ==
    ASSUME NEW h \in FactsHost, NEW r, NEW x \in DOMAIN FactSection,
           \A k \in 1..13 : k < FactSection[x] => r[k] = FactsScript(h)[k].lines,
           Entire(FactsScript(h)[FactSection[x]].lines, r[FactSection[x]])
    PROVE  \/ FactsTold(r)[x] = FactsOf(h)[x]
           \/ /\ x \in TextFacts /\ FactsTold(r)[x] = Garbled
              /\ r[FactSection[x]] # FactsScript(h)[FactSection[x]].lines
  <1>. DEFINE s == FactsScript(h)
              m == FactSection[x]
              E(k) == Entire(s[k].lines, r[k])
              T(k, is, n) == \/ TextIn(r[k], is) = n
                             \/ TextIn(r[k], is) = Garbled /\ r[k] # s[k].lines
  <1>1. E(m) /\ \A k \in 1..13 : k < m => r[k] = s[k].lines
    OBVIOUS
  <1>2. /\ h.id \in Reading /\ h.uname \in {3, None} /\ h.nproc \in Reading
        /\ h.memTotal \in Reading /\ h.virt \in {0, 1, None} /\ h.container \in Reading
        /\ h.vendor \in {0, 1, None} /\ h.product \in {0, 1, None} /\ h.uptime \in Reading
        /\ h.now \in Reading /\ h.user \in Reading
    BY DEF FactsHost
  <1>3. h.uname \in Reading /\ h.virt \in Reading /\ h.vendor \in Reading /\ h.product \in Reading
    BY <1>2 DEF Reading
  <1>4. /\ s[1].lines = Said("ID", h.id) /\ s[2].lines = Said("uname", h.uname)
        /\ s[3].lines = Said("nproc", h.nproc) /\ s[4].lines = Said("MemTotal", h.memTotal)
        /\ s[5].lines = Said("virt", h.virt) /\ s[6].lines = Said("container", h.container)
        /\ s[7].lines = Said("vendor", h.vendor) /\ s[8].lines = Said("product", h.product)
        /\ s[9].lines = Caps(h) /\ s[10].lines = Said("uptime", h.uptime)
        /\ s[11].lines = Said("now", h.now) /\ s[12].lines = Said("user", h.user)
    BY FactsLines DEF Caps
  <1>5. {"ID", "uname", "nproc", "MemTotal", "virt", "container", "vendor", "product", "uptime",
         "now", "user"} \subseteq Words
    BY DEF Words, Counts, Cents, Texts, NameKinds
  <1>. HIDE DEF s
  <1>6. /\ E(1) => FirstIn(r[1], "ID") = h.id
        /\ E(2) => FirstIn(r[2], "uname") = h.uname
        /\ E(3) => FirstIn(r[3], "nproc") = h.nproc
        /\ E(4) => FirstIn(r[4], "MemTotal") = h.memTotal
        /\ E(7) => FirstIn(r[7], "vendor") = h.vendor
        /\ E(8) => FirstIn(r[8], "product") = h.product
        /\ E(10) => FirstIn(r[10], "uptime") = h.uptime
    BY <1>2, <1>3, <1>4, <1>5, SaidRead
  <1>7. /\ E(2) => T(2, "uname", h.uname)
        /\ E(5) => T(5, "virt", h.virt)
        /\ E(6) => T(6, "container", h.container)
        /\ E(7) => T(7, "vendor", h.vendor)
        /\ E(8) => T(8, "product", h.product)
        /\ E(11) => T(11, "now", h.now)
        /\ E(12) => T(12, "user", h.user)
    BY <1>2, <1>3, <1>4, <1>5, SaidText
  <1>8. E(9) => /\ NumbersOf(r[9], 1..Len(r[9]), "has") = h.binaries
                /\ NumbersOf(r[9], 1..Len(r[9]), "has not") = (1..Binaries) \ h.binaries
    BY <1>4, CapsWhole
  <1>. HIDE DEF E
  <1>9. /\ x = "id" => m = 1
        /\ x \in {"kernel", "arch"} => m = 2
        /\ x = "nproc" => m = 3
        /\ x = "memTotal" => m = 4
        /\ x = "hypervisor" => m = 5
        /\ x = "container" => m = 6
        /\ x = "vendor" => m = 7
        /\ x \in {"product", "isVirtual"} => m = 8
        /\ x \in {"has", "hasNot"} => m = 9
        /\ x = "uptime" => m = 10
        /\ x = "now" => m = 11
        /\ x = "user" => m = 12
    BY DEF FactSection
  <1>10. {"arch", "hypervisor", "container", "vendor", "product", "now", "user"} \subseteq TextFacts
    BY DEF TextFacts
  <1>. DEFINE a == FactsTold(r)
              b == FactsOf(h)
              Held == a[x] = b[x] \/ (x \in TextFacts /\ a[x] = Garbled /\ r[m] # s[m].lines)
  <1>11. /\ a["id"] = FirstIn(r[1], "ID") /\ a["nproc"] = FirstIn(r[3], "nproc")
         /\ a["memTotal"] = FirstIn(r[4], "MemTotal") /\ a["uptime"] = FirstIn(r[10], "uptime")
         /\ a["kernel"] = (FirstIn(r[2], "uname") >= 2)
         /\ a["arch"] = IF FirstIn(r[2], "uname") < 3 THEN None ELSE TextIn(r[2], "uname")
         /\ a["hypervisor"] = OrNone(TextIn(r[5], "virt"))
         /\ a["container"] = OrNone(TextIn(r[6], "container"))
         /\ a["vendor"] = TextIn(r[7], "vendor") /\ a["product"] = TextIn(r[8], "product")
         /\ a["isVirtual"] = Virtual(OrNone(TextIn(r[5], "virt")), FirstIn(r[7], "vendor"),
                                     FirstIn(r[8], "product"))
         /\ a["has"] = NumbersOf(r[9], 1..Len(r[9]), "has")
         /\ a["hasNot"] = NumbersOf(r[9], 1..Len(r[9]), "has not")
         /\ a["now"] = TextIn(r[11], "now") /\ a["user"] = TextIn(r[12], "user")
    BY DEF FactsTold
  <1>12. /\ b["id"] = h.id /\ b["nproc"] = h.nproc /\ b["memTotal"] = h.memTotal
         /\ b["uptime"] = h.uptime /\ b["kernel"] = (h.uname = 3) /\ b["arch"] = h.uname
         /\ b["hypervisor"] = (IF h.virt = 1 THEN 1 ELSE 0) /\ b["container"] = OrNone(h.container)
         /\ b["vendor"] = h.vendor /\ b["product"] = h.product
         /\ b["isVirtual"] = (1 \in {h.virt, h.vendor, h.product})
         /\ b["has"] = h.binaries /\ b["hasNot"] = (1..Binaries) \ h.binaries
         /\ b["now"] = h.now /\ b["user"] = h.user
    BY DEF FactsOf, OrNone
  <1>13. OrNone(h.virt) = (IF h.virt = 1 THEN 1 ELSE 0) /\ OrNone(Garbled) = Garbled
    BY <1>2 DEF OrNone, None, Garbled
  <1>. SUFFICES Held
    BY DEF s
  <1>. HIDE DEF a, b, m
  <1>14. CASE x \in {"id", "nproc", "memTotal", "uptime"}
    <2>1. CASE x = "id"
      BY <1>1, <1>6, <1>9, <1>11, <1>12, <2>1
    <2>2. CASE x = "nproc"
      BY <1>1, <1>6, <1>9, <1>11, <1>12, <2>2
    <2>3. CASE x = "memTotal"
      BY <1>1, <1>6, <1>9, <1>11, <1>12, <2>3
    <2>4. CASE x = "uptime"
      BY <1>1, <1>6, <1>9, <1>11, <1>12, <2>4
    <2>. QED  BY <1>14, <2>1, <2>2, <2>3, <2>4
  <1>15. CASE x = "kernel"
    <2>1. FirstIn(r[2], "uname") = h.uname
      BY <1>1, <1>6, <1>9, <1>15
    <2>2. (h.uname >= 2) = (h.uname = 3)
      BY <1>2 DEF None
    <2>3. (FirstIn(r[2], "uname") >= 2) = (h.uname = 3)
      BY <2>1, <2>2
    <2>. QED  BY <1>11, <1>12, <1>15, <2>3
  <1>16. CASE x = "arch"
    <2>1. FirstIn(r[2], "uname") = h.uname /\ T(2, "uname", h.uname) /\ m = 2
      BY <1>1, <1>6, <1>7, <1>9, <1>16
    <2>2. h.uname = None => h.uname < 3
      BY DEF None
    <2>3. h.uname = 3 => ~(h.uname < 3)
      OBVIOUS
    <2>4. CASE h.uname = None
      BY <1>11, <1>12, <1>16, <2>1, <2>2, <2>4
    <2>5. CASE h.uname = 3
      <3>1. a["arch"] = TextIn(r[2], "uname")
        BY <1>11, <2>1, <2>3, <2>5
      <3>. QED  BY <1>10, <1>12, <1>16, <2>1, <3>1
    <2>. QED  BY <1>2, <2>4, <2>5
  <1>17. CASE x = "hypervisor"
    <2>1. T(5, "virt", h.virt) /\ m = 5
      BY <1>1, <1>7, <1>9, <1>17
    <2>. QED  BY <1>10, <1>11, <1>12, <1>13, <1>17, <2>1
  <1>18. CASE x = "container"
    <2>1. T(6, "container", h.container) /\ m = 6
      BY <1>1, <1>7, <1>9, <1>18
    <2>. QED  BY <1>10, <1>11, <1>12, <1>13, <1>18, <2>1
  <1>19. CASE x = "vendor"
    <2>1. T(7, "vendor", h.vendor) /\ m = 7
      BY <1>1, <1>7, <1>9, <1>19
    <2>. QED  BY <1>10, <1>11, <1>12, <1>19, <2>1
  <1>20. CASE x = "product"
    <2>1. T(8, "product", h.product) /\ m = 8
      BY <1>1, <1>7, <1>9, <1>20
    <2>. QED  BY <1>10, <1>11, <1>12, <1>20, <2>1
  <1>21. CASE x = "isVirtual"
    <2>1. m = 8
      BY <1>9, <1>21
    <2>2. r[5] = s[5].lines /\ r[7] = s[7].lines
      BY <1>1, <2>1
    <2>3. E(5) /\ E(7) /\ E(8)
      BY <1>1, <2>1, <2>2 DEF E, Entire
    <2>4. TextIn(r[5], "virt") = h.virt
      BY <1>7, <2>2, <2>3
    <2>5. FirstIn(r[7], "vendor") = h.vendor /\ FirstIn(r[8], "product") = h.product
      BY <1>6, <2>3
    <2>6. (OrNone(h.virt) # 0) = (h.virt = 1)
      BY <1>2 DEF OrNone, None
    <2>7. Virtual(OrNone(h.virt), h.vendor, h.product) = (1 \in {h.virt, h.vendor, h.product})
      BY <2>6 DEF Virtual
    <2>. QED  BY <1>11, <1>12, <1>21, <2>4, <2>5, <2>7
  <1>22. CASE x \in {"has", "hasNot"}
    <2>1. E(9)
      BY <1>1, <1>9, <1>22
    <2>2. a["has"] = b["has"] /\ a["hasNot"] = b["hasNot"]
      BY <1>8, <1>11, <1>12, <2>1
    <2>. QED  BY <1>22, <2>2
  <1>23. CASE x = "now"
    <2>1. T(11, "now", h.now) /\ m = 11
      BY <1>1, <1>7, <1>9, <1>23
    <2>. QED  BY <1>10, <1>11, <1>12, <1>23, <2>1
  <1>24. CASE x = "user"
    <2>1. T(12, "user", h.user) /\ m = 12
      BY <1>1, <1>7, <1>9, <1>24
    <2>. QED  BY <1>10, <1>11, <1>12, <1>24, <2>1
  <1>25. x \in {"id", "kernel", "arch", "nproc", "memTotal", "hypervisor", "container", "vendor",
                "product", "isVirtual", "has", "hasNot", "uptime", "now", "user"}
    BY DEF FactSection
  <1>. QED  BY <1>14, <1>15, <1>16, <1>17, <1>18, <1>19, <1>20, <1>21, <1>22, <1>23, <1>24,
            <1>25

\* Nothing cut: the facts are those of the host.
LEMMA FactsWhole ==
    ASSUME NEW h \in FactsHost, NEW t, NEW c, c.section = 0, AllLeft(t, FactsScript(h), c)
    PROVE  FactsRead(t) = FactsOf(h)
  <1>. DEFINE s == FactsScript(h)
  <1>1. PICK r : SectionsLeft(t, s, c, r)
    BY SectionsPicked
  <1>2. FactsRead(t) = FactsTold(r)
    BY <1>1, FactsReadBack
  <1>3. ASSUME NEW k \in 1..13 PROVE r[k] = s[k].lines
    <2>1. Len(s) = 13
      BY FactsNames
    <2>2. Left(s[k].lines, k, c, r[k])
      <3>. HIDE DEF s
      <3>. QED  BY <1>1, <2>1 DEF SectionsLeft
    <2>3. k + 1 # 0 /\ k # 0
      OBVIOUS
    <2>. HIDE DEF s
    <2>. QED  BY <2>2, <2>3 DEF Left
  <1>. DEFINE a == FactsTold(r)
              b == FactsOf(h)
  <1>4. ASSUME NEW x \in DOMAIN FactSection PROVE a[x] = b[x]
    <2>. DEFINE m == FactSection[x]
    <2>1. m \in 1..13
      BY DEF FactSection
    <2>. HIDE DEF s, m
    <2>2. r[m] = s[m].lines /\ Entire(s[m].lines, r[m])
      BY <1>3, <2>1 DEF Entire
    <2>. QED  BY <1>3, <2>2, FactsSame DEF s, m
  <1>5. DOMAIN FactSection = {"id", "kernel", "arch", "nproc", "memTotal", "hypervisor", "container",
                              "vendor", "product", "isVirtual", "has", "hasNot", "uptime", "now",
                              "user"}
    BY DEF FactSection
  <1>6. /\ a.id = b.id /\ a.kernel = b.kernel /\ a.arch = b.arch /\ a.nproc = b.nproc
        /\ a.memTotal = b.memTotal /\ a.hypervisor = b.hypervisor /\ a.container = b.container
        /\ a.vendor = b.vendor /\ a.product = b.product
        /\ a.isVirtual = b.isVirtual /\ a.has = b.has /\ a.hasNot = b.hasNot
        /\ a.uptime = b.uptime /\ a.now = b.now /\ a.user = b.user
    <2>. HIDE DEF a, b
    <2>. QED  BY <1>4, <1>5
  <1>7. a = [ id |-> a.id, kernel |-> a.kernel, arch |-> a.arch, nproc |-> a.nproc,
              memTotal |-> a.memTotal, hypervisor |-> a.hypervisor, container |-> a.container,
              vendor |-> a.vendor, product |-> a.product,
              isVirtual |-> a.isVirtual, has |-> a.has, hasNot |-> a.hasNot, uptime |-> a.uptime,
              now |-> a.now, user |-> a.user ]
    BY DEF FactsTold
  <1>8. b = [ id |-> b.id, kernel |-> b.kernel, arch |-> b.arch, nproc |-> b.nproc,
              memTotal |-> b.memTotal, hypervisor |-> b.hypervisor, container |-> b.container,
              vendor |-> b.vendor, product |-> b.product,
              isVirtual |-> b.isVirtual, has |-> b.has, hasNot |-> b.hasNot, uptime |-> b.uptime,
              now |-> b.now, user |-> b.user ]
    BY DEF FactsOf
  <1>. HIDE DEF a, b
  <1>9. a = b
    BY <1>6, <1>7, <1>8
  <1>. QED  BY <1>2, <1>9 DEF a, b

\* Cut: what sections before the cut tell is true, and capabilities as above.
LEMMA FactsCut ==
    ASSUME NEW h \in FactsHost, NEW t, NEW c, c.section \in 0..13, c.line \in Int,
           AllLeft(t, FactsScript(h), c), NEW f, f = FactsRead(t)
    PROVE  /\ f.has \subseteq h.binaries
           /\ \A b \in f.hasNot \cap h.binaries :
                 c.section = 9 /\ c.line = b + 1 /\ \A u \in f.has : u < b
           /\ \A x \in DOMAIN FactSection : FactSection[x] < c.section =>
                 \/ f[x] = FactsOf(h)[x]
                 \/ /\ x \in TextFacts /\ f[x] = Garbled
                    /\ FactSection[x] = c.section - 1 /\ c.line = 1
  <1>. DEFINE s == FactsScript(h)
  <1>1. PICK r : SectionsLeft(t, s, c, r)
    BY SectionsPicked
  <1>2. f = FactsTold(r)
    BY <1>1, FactsReadBack
  <1>3. Len(s) = 13 /\ s[9].lines = Caps(h)
    BY FactsLines DEF Caps
  <1>. HIDE DEF s
  <1>4. \A k \in 1..13 : Left(s[k].lines, k, c, r[k])
    BY <1>1, <1>3 DEF SectionsLeft
  <1>5. /\ f.has = NumbersOf(r[9], 1..Len(r[9]), "has")
        /\ f.hasNot = NumbersOf(r[9], 1..Len(r[9]), "has not")
    <2>1. /\ FactsTold(r).has = NumbersOf(r[9], 1..Len(r[9]), "has")
          /\ FactsTold(r).hasNot = NumbersOf(r[9], 1..Len(r[9]), "has not")
      BY DEF FactsTold
    <2>. QED  BY <1>2, <2>1
  <1>6. /\ f.has \subseteq h.binaries
        /\ \A b \in f.hasNot \cap h.binaries :
              c.section = 9 /\ c.line = b + 1 /\ \A u \in f.has : u < b
    <2>1. Left(s[9].lines, 9, c, r[9])
      BY <1>4
    <2>. DEFINE ls == r[9]
                X == NumbersOf(ls, 1..Len(ls), "has")
                Y == NumbersOf(ls, 1..Len(ls), "has not")
    <2>2. Left(Caps(h), 9, c, ls)
      BY <1>3, <2>1
    <2>. HIDE DEF ls
    <2>3. /\ X \subseteq h.binaries
          /\ \A b \in Y \cap h.binaries :
                c.section = 9 /\ c.line = b + 1 /\ \A u \in X : u < b
      BY <2>2, CapsCut
    <2>4. f.has = X /\ f.hasNot = Y
      BY <1>5 DEF ls
    <2>. HIDE DEF X, Y
    <2>. QED  BY <2>3, <2>4
  <1>7. ASSUME NEW x \in DOMAIN FactSection, FactSection[x] < c.section
        PROVE  \/ f[x] = FactsOf(h)[x]
               \/ /\ x \in TextFacts /\ f[x] = Garbled
                  /\ FactSection[x] = c.section - 1 /\ c.line = 1
    <2>. DEFINE k == FactSection[x]
                n == c.section
    <2>1. k \in 1..13
      BY DEF FactSection
    <2>2. n \in 0..13 /\ k < n
      BY <1>7
    <2>. HIDE DEF k, n
    <2>3. n # 0
      BY <2>1, <2>2
    <2>4. ASSUME NEW j \in 1..13, j < k PROVE r[j] = s[j].lines
      <3>1. j # n /\ ~(n < j) /\ j + 1 # n
        BY <2>1, <2>2, <2>4
      <3>2. Left(s[j].lines, j, c, r[j])
        BY <1>4
      <3>. QED  BY <2>3, <3>1, <3>2 DEF Left, n
    <2>5. \/ r[k] = s[k].lines
          \/ k + 1 = n /\ c.line = 1 /\ r[k] = s[k].lines \o <<Piece>>
      <3>1. k # n /\ ~(n < k)
        BY <2>1, <2>2
      <3>2. Left(s[k].lines, k, c, r[k])
        BY <1>4, <2>1
      <3>. QED  BY <2>3, <3>1, <3>2 DEF Left, n
    <2>6. Entire(s[k].lines, r[k])
      BY <2>5 DEF Entire
    <2>7. \/ FactsTold(r)[x] = FactsOf(h)[x]
          \/ x \in TextFacts /\ FactsTold(r)[x] = Garbled /\ r[k] # s[k].lines
      BY <2>4, <2>6, FactsSame DEF s, k
    <2>8. k + 1 = n => k = n - 1
      BY <2>1, <2>2
    <2>. QED  BY <1>2, <2>5, <2>7, <2>8 DEF k, n
  <1>. QED  BY <1>6, <1>7

-----------------------------------------------------------------------------
(* The theorems.                                                           *)

\* Every variable keeps its kind of value, however the probes of a report and
\* the cut of its text fall (Reports, triage.py:76-205).
THEOREM TypeCorrect == Spec => []TypeOK
  <1>1. IInv => TypeOK
    <2>. SUFFICES ASSUME IInv PROVE TypeOK
      OBVIOUS
    <2>1. /\ HostKnown /\ pc \in {"running", "received", "answered"} /\ done \in 0..Len(Script)
          /\ pc = "running" => cut = Whole /\ Before(text, Script, done)
          /\ pc # "running" => Received
          /\ pc # "answered" => warnings = {}
          /\ pc = "answered" => Told
      BY DEF IInv
    <2>2. tool \in {"triage", "host_facts"}
      BY <2>1 DEF HostKnown
    <2>3. WellMade(Script) /\ Len(Script) \in Nat
      BY <2>1, ScriptMade DEF WellMade
    <2>4. cut.section \in 0..Len(Script)
      <3>1. Whole.section = 0
        BY DEF Whole
      <3>2. cut = Whole \/ cut.section \in 1..Len(Script)
        BY <2>1 DEF Received
      <3>. QED  BY <2>3, <3>1, <3>2
    <2>5. text \in Seq(LineType)
      <3>1. CASE pc = "running"
        <4>1. Laid(text, Script, done)
          BY <2>1, <2>3, <3>1, BeforeLaid
        <4>. QED  BY <4>1 DEF Laid
      <3>2. CASE pc # "running"
        BY <2>1, <3>2 DEF Received
      <3>. QED  BY <3>1, <3>2
    <2>6. \A i \in DOMAIN text : text[i].n >= 0
      <3>1. \A i \in DOMAIN text : text[i] \in LineType
        BY <2>5
      <3>2. \A l \in LineType : l.n >= 0
        BY LineNumbered
      <3>. QED  BY <3>1, <3>2
    <2>7. \A w \in warnings : w.severity \in {"warn", "crit"}
      <3>1. CASE pc = "answered" /\ tool = "triage"
        <4>1. warnings = Joined(Alarms(facts))
          BY <2>1, <3>1, WarningsBySection DEF Told
        <4>2. PlacedAll(Alarms(facts))
          BY AlarmsPlaced
        <4>3. \A w \in warnings : \E k \in 1..18 : Placed(w, k)
          BY <4>1, <4>2, JoinedIn DEF PlacedAll
        <4>. QED  BY <4>3 DEF Placed
      <3>2. CASE ~(pc = "answered" /\ tool = "triage")
        BY <2>1, <3>2 DEF Told
      <3>. QED  BY <3>1, <3>2
    <2>8. ASSUME tool = "triage", pc = "answered"
          PROVE  facts.failed \in Nat /\ facts.nproc >= None /\ facts.reboot \in BOOLEAN
      <3>. DEFINE s == TriageScript(host)
      <3>1. AllLeft(text, s, cut) /\ facts = TriageFacts(text)
        BY <2>1, <2>8 DEF Received, Told, Script
      <3>2. PICK r : SectionsLeft(text, s, cut, r)
        BY <3>1, SectionsPicked
      <3>3. Len(s) = 18
        BY TriageLines
      <3>4. \A k \in 1..18 : r[k] \in Seq(LineType) /\ Reads(text, s[k].name, r[k])
        BY <3>2, <3>3 DEF SectionsLeft
      <3>5. \A k \in 1..18 : Len(r[k]) \in Nat
        <4>. SUFFICES ASSUME NEW k \in 1..18 PROVE Len(r[k]) \in Nat
          OBVIOUS
        <4>1. r[k] \in Seq(LineType)
          BY <3>4
        <4>. QED  BY <4>1
      <3>6. TriageReads(text, host, r)
        BY <3>4, <3>5 DEF TriageReads
      <3>7. TriageTells(facts, text, r)
        BY <3>1, <3>6, TriageRead
      <3>8. facts.failed = Len(r[5]) /\ facts.nproc = FirstIn(r[2], "nproc")
            /\ facts.reboot = HasIn(r[15], "yes")
        BY <3>7 DEF TriageTells
      <3>9. FirstIn(r[2], "nproc") \in Reading
        <4>1. r[2] \in Seq(LineType)
          BY <3>4
        <4>. QED  BY <4>1, FirstKnown
      <3>10. facts.nproc >= None
        BY <3>8, <3>9 DEF Reading, None
      <3>11. facts.reboot \in BOOLEAN
        BY <3>8 DEF HasIn, HasLine
      <3>. QED  BY <3>5, <3>8, <3>10, <3>11
    <2>. QED  BY <2>1, <2>2, <2>4, <2>6, <2>7, <2>8 DEF TypeOK
  <1>. QED  BY InvHolds, <1>1, PTL

\* What is known of an answer.
LEMMA Answered ==
    ASSUME IInv, pc = "answered"
    PROVE  /\ tool = "triage" => /\ host \in TriageHost /\ AllLeft(text, TriageScript(host), cut)
                                 /\ warnings = Warnings(TriageFacts(text))
                                 /\ cut = Whole \/ cut.section \in 1..18
           /\ tool = "host_facts" => /\ host \in FactsHost /\ AllLeft(text, FactsScript(host), cut)
                                     /\ facts = FactsRead(text) /\ cut.line \in Int
                                     /\ cut = Whole \/ cut.section \in 1..13
  <1>1. HostKnown /\ Received /\ Told
    BY DEF IInv
  <1>2. ASSUME tool = "triage"
        PROVE  /\ host \in TriageHost /\ AllLeft(text, TriageScript(host), cut)
               /\ warnings = Warnings(TriageFacts(text))
               /\ cut = Whole \/ cut.section \in 1..18
    <2>1. Script = TriageScript(host) /\ Len(Script) = 18
      BY <1>2, TriageLines DEF Script
    <2>2. host \in TriageHost
      BY <1>1, <1>2, HostsAssumption DEF HostKnown
    <2>. QED  BY <1>1, <1>2, <2>1, <2>2 DEF Received, Told
  <1>3. ASSUME tool = "host_facts"
        PROVE  /\ host \in FactsHost /\ AllLeft(text, FactsScript(host), cut)
               /\ facts = FactsRead(text) /\ cut.line \in Int
               /\ cut = Whole \/ cut.section \in 1..13
    <2>1. Script = FactsScript(host) /\ Len(Script) = 13
      BY <1>3, FactsLines DEF Script
    <2>2. host \in FactsHost
      BY <1>1, <1>3, HostsAssumption DEF HostKnown
    <2>. QED  BY <1>1, <1>3, <2>1, <2>2 DEF Received, Told
  <1>. QED  BY <1>2, <1>3

\* A report that came back whole says of the host what there is to be said,
\* whatever the host, whatever sources are missing and whatever totals are zero
\* (handle_triage, handle_host_facts).
THEOREM WholeReportsAreTrue == Spec => []WholeReportIsTrue
  <1>1. IInv => WholeReportIsTrue
    <2>. SUFFICES ASSUME IInv, pc = "answered", cut = Whole
                  PROVE  IF tool = "triage" THEN warnings = Troubles(host) ELSE facts = FactsOf(host)
      BY DEF WholeReportIsTrue
    <2>1. cut.section = 0
      BY DEF Whole
    <2>2. CASE tool = "triage"
      BY <2>1, <2>2, Answered, TriageWhole
    <2>3. CASE tool # "triage"
      <3>1. tool = "host_facts"
        BY <2>3 DEF IInv, HostKnown
      <3>. QED  BY <2>1, <2>3, <3>1, Answered, FactsWhole
    <2>. QED  BY <2>2, <2>3
  <1>. QED  BY InvHolds, <1>1, PTL

\* Of a triage report that was cut off, no warning of the sections before the
\* cut is missing; a false alarm is of the section cut, or of the one before it
\* when a marker was cut, and of a kind that may be false (triage.py:76-85).
THEOREM OnlyCutsLie == Spec => []OnlyTheCutLies
  <1>1. IInv => OnlyTheCutLies
    <2>. SUFFICES ASSUME IInv, pc = "answered", tool = "triage", cut # Whole
                  PROVE  /\ \A w \in Troubles(host) \ warnings : SectionOf(w) >= cut.section
                         /\ \A w \in warnings \ Troubles(host) :
                              /\ w.kind \in MayBeFalse
                              /\ \/ SectionOf(w) = cut.section
                                 \/ SectionOf(w) = cut.section - 1 /\ cut.line = 1
      BY DEF OnlyTheCutLies
    <2>1. /\ host \in TriageHost /\ AllLeft(text, TriageScript(host), cut)
          /\ warnings = Warnings(TriageFacts(text)) /\ cut.section \in 1..18
      BY Answered
    <2>. QED  BY <2>1, TriageCut
  <1>. QED  BY InvHolds, <1>1, PTL

\* A capability host_facts says to be there is; one it says not to be may be
\* there only if the text was cut off within its line, and then it is the last
\* (facts.py:139-143).
THEOREM CapabilitiesAreTold == Spec => []CapabilityTold
  <1>1. IInv => CapabilityTold
    <2>. SUFFICES ASSUME IInv, pc = "answered", tool = "host_facts"
                  PROVE  /\ facts.has \subseteq host.binaries
                         /\ \A t \in facts.hasNot \cap host.binaries :
                              cut.section = 9 /\ cut.line = t + 1 /\ \A u \in facts.has : u < t
      BY DEF CapabilityTold
    <2>1. /\ host \in FactsHost /\ AllLeft(text, FactsScript(host), cut)
          /\ facts = FactsRead(text) /\ cut.line \in Int /\ (cut = Whole \/ cut.section \in 1..13)
      BY Answered
    <2>2. cut.section \in 0..13
      BY <2>1 DEF Whole
    <2>. QED  BY <2>1, <2>2, FactsCut
  <1>. QED  BY InvHolds, <1>1, PTL

\* The facts of the sections before the cut are those of the host, but that a
\* piece of the marker cut off garbles a fact that is all of the text before it,
\* or its last word: hypervisor, container, vendor, product, the time, the user
\* and the architecture (facts.py:80-88, 117-154).
THEOREM FactsAreKept == Spec => []FactsStand
  <1>1. IInv => FactsStand
    <2>. SUFFICES ASSUME IInv, pc = "answered", tool = "host_facts"
                  PROVE  \A f \in DOMAIN FactSection : FactSection[f] < cut.section =>
                            \/ facts[f] = FactsOf(host)[f]
                            \/ /\ f \in TextFacts /\ facts[f] = Garbled
                               /\ FactSection[f] = cut.section - 1 /\ cut.line = 1
      BY DEF FactsStand
    <2>1. /\ host \in FactsHost /\ AllLeft(text, FactsScript(host), cut)
          /\ facts = FactsRead(text) /\ cut.line \in Int /\ (cut = Whole \/ cut.section \in 1..13)
      BY Answered
    <2>2. cut.section \in 0..13
      BY <2>1 DEF Whole
    <2>. QED  BY <2>1, <2>2, FactsCut
  <1>. QED  BY InvHolds, <1>1, PTL
=============================================================================

------------------------------- MODULE Facts --------------------------------
(***************************************************************************)
(* tools/facts.py: what the probes of host_facts print and what is read    *)
(* back.  Names are numbers: a hypervisor is 0 (none) or 1; a vendor, or a *)
(* product, is 1 if one of _VM_DMI_SIGNATURES is in its name; a binary is  *)
(* one of 1 .. Binaries.                                                   *)
(***************************************************************************)
EXTENDS Sections

\* Of _CAP_TOOLS, the binaries modelled.
Binaries == 3

\* What there may be to read: uname prints three words or nothing, a host has a
\* processor and memory.
FactsHost ==
  [ id : Reading, uname : {3, None}, nproc : Reading \ {0}, memTotal : Reading \ {0},
    virt : {0, 1, None}, container : Reading, vendor : {0, 1, None},
    product : {0, 1, None}, binaries : SUBSET (1..Binaries), uptime : Reading,
    now : Reading, user : Reading ]

FactsScript(h) ==
  << Probe("os_release", Said("ID", h.id)),
     Probe("uname", Said("uname", h.uname)),
     Probe("nproc", Said("nproc", h.nproc)),
     Probe("mem_total", Said("MemTotal", h.memTotal)),
     Probe("virt", Said("virt", h.virt)),
     Probe("container", Said("container", h.container)),
     Probe("dmi_vendor", Said("vendor", h.vendor)),
     Probe("dmi_product", Said("product", h.product)),
     Probe("capabilities",
            [t \in 1..Binaries |-> Line(IF t \in h.binaries THEN "has" ELSE "has not", t)]),
     Probe("uptime", Said("uptime", h.uptime)),
     Probe("now_utc", Said("now", h.now)),
     Probe("whoami", Said("user", h.user)),
     Probe("END", <<>>) >>

\* is_virtual
Virtual(hypervisor, vendor, product) == hypervisor # 0 \/ vendor = 1 \/ product = 1

\* A text that no source said.
Garbled == -2

\* _section_text, of a section that has at most one line of its own: the piece
\* of a marker that was cut off is one more.
SectionText(text, name, is) ==
  LET lines == Under(text, name)
  IN  CASE lines = {} -> None
        [] \E i \in lines : lines = {i} /\ text[i].is = is -> First(text, lines, is)
        [] OTHER -> Garbled

Has(text) == {text[i].n : i \in {j \in Under(text, "capabilities") : text[j].is = "has"}}
\* Mutant: what is not said to be there is not.
HasNotUnlisted(text) == (1..Binaries) \ Has(text)
HasNot(text) == {text[i].n : i \in {j \in Under(text, "capabilities") : text[j].is = "has not"}}

\* _parse_facts
FactsRead(text) ==
  LET number(name, is) == First(text, Under(text, name), is)
      orNone(n) == IF n = None THEN 0 ELSE n
      hypervisor == orNone(SectionText(text, "virt", "virt"))
      uname == number("uname", "uname")
  IN [ id |-> number("os_release", "ID"),
       kernel |-> uname >= 2,
       arch |-> IF uname < 3 THEN None ELSE SectionText(text, "uname", "uname"),
       nproc |-> number("nproc", "nproc"),
       memTotal |-> number("mem_total", "MemTotal"),
       hypervisor |-> hypervisor,
       container |-> orNone(SectionText(text, "container", "container")),
       vendor |-> SectionText(text, "dmi_vendor", "vendor"),
       product |-> SectionText(text, "dmi_product", "product"),
       isVirtual |-> Virtual(hypervisor, number("dmi_vendor", "vendor"),
                             number("dmi_product", "product")),
       has |-> Has(text), hasNot |-> HasNot(text),
       uptime |-> number("uptime", "uptime"),
       now |-> SectionText(text, "now_utc", "now"),
       user |-> SectionText(text, "whoami", "user") ]

\* What there is to be read of a host.
FactsOf(h) ==
  [ id |-> h.id, kernel |-> h.uname = 3, arch |-> h.uname, nproc |-> h.nproc,
    memTotal |-> h.memTotal, hypervisor |-> IF h.virt = 1 THEN 1 ELSE 0,
    container |-> IF h.container = None THEN 0 ELSE h.container,
    vendor |-> h.vendor, product |-> h.product,
    isVirtual |-> 1 \in {h.virt, h.vendor, h.product},
    has |-> h.binaries, hasNot |-> (1..Binaries) \ h.binaries,
    uptime |-> h.uptime, now |-> h.now, user |-> h.user ]

\* The last of the sections each fact is read from, and the facts that are all
\* of the text of theirs, or its last word.
FactSection ==
  [ id |-> 1, kernel |-> 2, arch |-> 2, nproc |-> 3, memTotal |-> 4, hypervisor |-> 5,
    container |-> 6, vendor |-> 7, product |-> 8, isVirtual |-> 8, has |-> 9, hasNot |-> 9,
    uptime |-> 10, now |-> 11, user |-> 12 ]
TextFacts == {"arch", "hypervisor", "container", "vendor", "product", "now", "user"}
=============================================================================

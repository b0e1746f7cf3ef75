------------------------------- MODULE Tools -------------------------------
(* The 78 tools less the composite ones (host_facts, triage: see Reports):   *)
(* which values each argument takes, which arguments exclude or need each    *)
(* other, and which of them put a word in the remote command.                *)
(* `host' is left out: every tool has it, and Targets models it.             *)
EXTENDS Integers

(***************************************************************************)
(* Values.  An argument that is not given has none.  An integer is         *)
(* [is |-> "int", n |-> its value]; anything else is what its validator    *)
(* tells apart: a flag's yes or no, the name chosen, or junk, which stands *)
(* for every value of a wrong type or shape.                               *)
(***************************************************************************)
Word(w) == [is |-> w, n |-> 0]
Number(k) == [is |-> "int", n |-> k]

(***************************************************************************)
(* Kinds of arguments: the words it takes, or the range of its integers,   *)
(* and those of them that put a word in the command.                       *)
(***************************************************************************)
Kind(takes, says) == [lo |-> 1, hi |-> 0, open |-> FALSE, takes |-> takes, says |-> says]

Flag == Kind({"yes", "no"}, {"yes"})
\* A flag that is on unless it is given as no.
OnUnlessNo == Kind({"yes", "no"}, {"no"})
Text == Kind({"text"}, {"text"})
Items == Kind({"items", "none"}, {"items"})
SomeItems == Kind({"items"}, {"items"})
OneOf(names) == Kind(names, names)
\* A choice whose default, given or not, adds nothing.
OneOfBut(names, silent) == Kind(names, names \ {silent})
Within(lo, hi) == [lo |-> lo, hi |-> hi, open |-> FALSE, takes |-> {}, says |-> {}]
AtLeast(lo) == [Within(lo, lo) EXCEPT !.open = TRUE]
Pid == Within(1, 4194304)

Takes(k, v) ==
  \/ v.is = "int" /\ v.n >= k.lo /\ (k.open \/ v.n <= k.hi)
  \/ v.is \in k.takes
Says(k, v) == v.is = "int" \/ v.is \in k.says

(***************************************************************************)
(* Rules on combinations, over the arguments that say something and the    *)
(* names chosen.                                                           *)
(***************************************************************************)
Rule(when, forbids, demands, oneOf) ==
  [when |-> when, forbids |-> forbids, demands |-> demands, oneOf |-> oneOf]
Excl(a, b) == Rule({a}, {b}, {}, {})
Needs(a, b) == Rule({a}, {}, {b}, {})
OneAmong(names) == Rule({}, {}, {}, names)

Broken(r, on) ==
  /\ r.when \subseteq on
  /\ \/ r.forbids \cap on # {}
     \/ ~ (r.demands \subseteq on)
     \/ r.oneOf # {} /\ r.oneOf \cap on = {}

(***************************************************************************)
(* A tool.  `only' are the words whose branch of the builder lies inside   *)
(* another's; `always' those with a default; `root' says that sudo goes    *)
(* before the command; `pipes' that an argument (or "", for always) sends  *)
(* the source through a further program.                                   *)
(***************************************************************************)
Tool(args, needs, rules) ==
  [args |-> args, needs |-> needs, rules |-> rules,
   only |-> {}, always |-> {}, root |-> FALSE, pipes |-> {}]
Only(word, with, without) == [word |-> word, with |-> with, without |-> without]
Pipe(by, to) == [by |-> by, to |-> to]
NoArgs == [a \in {} |-> Flag]

-----------------------------------------------------------------------------
(* tools/files.py and tools/archive.py *)

\* A path, by whether its extension tells a codec or an archive format.
Path == OneOf({"known", "other"})
Codecs == OneOf({"gzip", "zstd", "xz", "bzip2", "lz4"})
CodecTold == Rule({"decompress"}, {}, {}, {"codec", "known"})
ReadFile ==
  [Tool([path |-> Path, grep_pattern |-> Text, grep_flags |-> Items,
         decompress |-> Flag, codec |-> Codecs],
        {"path"}, {CodecTold})
   EXCEPT !.only = {Only("grep_flags", {"grep_pattern"}, {}), Only("decompress", {}, {"codec"})},
          !.pipes = {Pipe("grep_pattern", "grep")}]
FindFiles ==
  Tool([path |-> Text, name |-> Text, iname |-> Text, type |-> OneOf({"f", "d", "l", "b", "c", "p", "s"}),
        maxdepth |-> AtLeast(0), mindepth |-> AtLeast(0),
        mtime |-> Text, size |-> Text, path_glob |-> Text],
       {"path"}, {})
ReadBinary ==
  [Tool([path |-> Path, offset |-> AtLeast(0), length |-> AtLeast(1), decompress |-> Flag,
         codec |-> Codecs],
        {"path", "offset", "length"}, {CodecTold})
   EXCEPT !.only = {Only("decompress", {}, {"codec"})}, !.pipes = {Pipe("", "base64")}]

Formats == OneOf({"tar", "tar.gz", "tar.xz", "tar.bz2", "tar.zst", "zip"})
FormatTold == OneAmong({"format", "known"})
ArchiveList == Tool([path |-> Path, format |-> Formats], {"path"}, {FormatTold})
ArchiveRead ==
  [Tool([path |-> Path, member |-> Text, format |-> Formats, grep_pattern |-> Text,
         grep_flags |-> Items, binary |-> Flag],
        {"path", "member"}, {FormatTold, Excl("binary", "grep_pattern")})
   EXCEPT !.only = {Only("grep_flags", {"grep_pattern"}, {"binary"}),
                    Only("grep_pattern", {}, {"binary"})},
          !.pipes = {Pipe("grep_pattern", "grep"), Pipe("binary", "base64")}]

-----------------------------------------------------------------------------
(* tools/disk.py and tools/fs.py *)

Du ==
  Tool([path |-> Text, human |-> Flag, summary |-> Flag, max_depth |-> Within(0, 10),
        apparent |-> Flag, one_filesystem |-> Flag, threshold |-> Text],
       {"path"}, {})
Lsblk ==
  [Tool([json |-> Flag, tree |-> OnUnlessNo, pairs |-> Flag, paths |-> Flag, fs |-> Flag,
         discard |-> Flag, topology |-> Flag, device |-> Text],
        {}, {Excl("json", "pairs"), Excl("tree", "json"), Excl("tree", "pairs")})
   EXCEPT !.only = {Only("tree", {}, {"json", "pairs"})}]
Blkid == Tool([device |-> Text, probe |-> Flag], {}, {Needs("probe", "device")})
Smartctl ==
  [Tool([device |-> Text, mode |-> OneOf({"info", "health", "attributes", "all", "capabilities"})],
        {"device", "mode"}, {})
   EXCEPT !.root = TRUE]
Blockdev == Tool(NoArgs, {}, {})

Mount == Tool([fstype |-> Text, verbose |-> Flag], {}, {})
Findmnt ==
  Tool([json |-> Flag, tree |-> Flag, target |-> Text, source |-> Text, fstype |-> Text],
       {}, {Excl("json", "tree")})
StatFs == Tool([path |-> Text, format |-> OneOfBut({"default", "terse"}, "default")], {"path"}, {})
Stat ==
  Tool([paths |-> SomeItems, dereference |-> Flag, file_system |-> Flag, terse |-> Flag,
        format |-> Text, cached |-> OneOf({"always", "never", "default"})],
       {"paths"}, {Excl("terse", "format")})

-----------------------------------------------------------------------------
(* tools/pkg.py and tools/time.py *)

DpkgList == Tool([pattern |-> Text], {}, {})
RpmList == Tool([pattern |-> Text, last |-> Flag], {}, {})
AptListInstalled == Tool([pattern |-> Text], {}, {})
RebootRequired == [Tool(NoArgs, {}, {}) EXCEPT !.pipes = {Pipe("", "script")}]

Chronyc ==
  Tool([subcommand |-> OneOf({"tracking", "sources", "sourcestats", "activity", "ntpdata",
                              "clients", "serverstats", "selectdata", "smoothing"})],
       {"subcommand"}, {})
Timedatectl ==
  Tool([mode |-> OneOf({"status", "show", "list-timezones", "show-timesync", "timesync-status"})],
       {"mode"}, {})

-----------------------------------------------------------------------------
(* tools/journalctl.py and tools/systemctl.py *)

Journalctl ==
  [Tool([unit |-> Text, lines |-> Within(1, 100000), since |-> Text, until |-> Text,
         priority |-> Text, grep_pattern |-> Text, identifier |-> Text,
         boot |-> Within(-10, 0), reverse |-> Flag,
         output |-> OneOf({"short", "short-iso", "short-precise", "cat", "json", "json-pretty",
                           "verbose"})],
        {}, {})
   EXCEPT !.always = {"lines", "output"}]
SystemctlStatus ==
  [Tool([unit |-> Text, lines |-> Within(0, 10000)], {"unit"}, {}) EXCEPT !.always = {"lines"}]
SystemctlList ==
  [Tool([kind |-> OneOf({"units", "unit-files"}), unit_type |-> Text, state |-> Text,
         all |-> Flag, pattern |-> Text], {}, {})
   EXCEPT !.always = {"kind"}]
SystemctlListTimers == Tool([all |-> Flag], {}, {})
SystemctlListSockets == Tool([all |-> Flag], {}, {})

-----------------------------------------------------------------------------
(* tools/docker.py *)

DockerPs ==
  Tool([all |-> Flag, size |-> Flag, latest |-> Flag, last |-> Within(1, 1000), quiet |-> Flag,
        no_trunc |-> Flag, format |-> OneOfBut({"table", "json"}, "table"), filter |-> Items],
       {}, {Excl("all", "latest"), Excl("all", "last"), Excl("latest", "last")})
DockerInspect ==
  Tool([targets |-> SomeItems, size |-> Flag,
        type |-> OneOf({"container", "image", "network", "volume", "service", "node", "plugin",
                        "secret", "task"}),
        format |-> OneOfBut({"json", "id", "name"}, "json")],
       {"targets"}, {})
DockerImages ==
  Tool([all |-> Flag, digests |-> Flag, quiet |-> Flag, no_trunc |-> Flag,
        format |-> OneOfBut({"table", "json"}, "table"), filter |-> Items, repository |-> Text],
       {}, {})
DockerLogs ==
  [Tool([container |-> Text, tail |-> Within(1, 10000), since |-> Text, until |-> Text,
         timestamps |-> Flag, grep_pattern |-> Text, grep_flags |-> Items],
        {"container"}, {Needs("grep_flags", "grep_pattern")})
   EXCEPT !.only = {Only("grep_flags", {"grep_pattern"}, {})}, !.always = {"tail"},
          !.pipes = {Pipe("grep_pattern", "merged")}]
-----------------------------------------------------------------------------
(* tools/kernel.py *)

Dmesg ==
  [Tool([human |-> Flag, time_iso |-> Flag, kernel_only |-> Flag, level |-> Text,
         facility |-> OneOf({"kern", "user", "mail", "daemon", "auth", "syslog", "lpr", "news"}),
         tail_lines |-> Within(1, 10000)],
        {}, {Excl("human", "time_iso")})
   EXCEPT !.root = TRUE, !.pipes = {Pipe("tail_lines", "tail")}]
Uname ==
  Tool([mode |-> OneOf({"all", "kernel-name", "kernel-release", "kernel-version", "machine",
                        "processor", "hardware-platform", "operating-system"})],
       {"mode"}, {})
Sysctl ==
  Tool([key |-> Text, all |-> Flag, pattern |-> Text],
       {}, {Excl("key", "all"), OneAmong({"key", "all"}), Needs("pattern", "all")})
Slabtop == Tool(NoArgs, {}, {})
Numastat == Tool([pid |-> Pid], {}, {})
CgroupStats ==
  [Tool([cgroup_path |-> Text, controller |-> OneOf({"cpu", "memory", "io", "all"})],
        {"cgroup_path"}, {})
   EXCEPT !.always = {"controller"}]
SystemdAnalyze ==
  [Tool([mode |-> OneOf({"time", "blame", "critical-chain"}), unit |-> Text],
        {}, {Needs("unit", "critical-chain")})
   EXCEPT !.always = {"mode"}]

-----------------------------------------------------------------------------
(* tools/lldp.py *)

LldpFormat == OneOf({"keyvalue", "json", "json0", "xml", "plain"})
LldpPorts ==
  [Tool([format |-> LldpFormat, iface |-> Text], {}, {})
   EXCEPT !.root = TRUE, !.always = {"format"}]
LldpChassis ==
  [Tool([format |-> LldpFormat], {}, {}) EXCEPT !.root = TRUE, !.always = {"format"}]

-----------------------------------------------------------------------------
(* tools/net.py *)

Ss ==
  Tool([tcp |-> Flag, udp |-> Flag, listening |-> Flag, all |-> Flag, numeric |-> Flag,
        processes |-> Flag, extended |-> Flag, summary |-> Flag, memory |-> Flag,
        state |-> OneOf({"established", "syn-sent", "syn-recv", "fin-wait-1", "fin-wait-2",
                         "time-wait", "close", "close-wait", "last-ack", "listening", "closing",
                         "all", "connected", "synchronized", "bucket", "big"}),
        family |-> OneOf({"inet", "inet6", "unix"})],
       {}, {})
IpAddr == Tool([iface |-> Text], {}, {})
IpRoute ==
  Tool([table |-> OneOf({"main", "default", "local", "all"}), family |-> OneOf({"inet", "inet6"})],
       {}, {})
LsofNet ==
  Tool([protocol |-> OneOf({"tcp", "udp", "tcp4", "tcp6", "udp4", "udp6"}),
        port |-> Within(1, 65535)],
       {}, {})
ArpTable == Tool([iface |-> Text, family |-> OneOf({"inet", "inet6"})], {}, {})
TcQdisc == Tool([iface |-> Text], {}, {})
Ethtool ==
  [Tool([iface |-> Text, mode |-> OneOf({"stats", "driver", "ring", "features", "pause", "coalesce"})],
        {"iface"}, {})
   EXCEPT !.root = TRUE, !.always = {"mode"}]
Conntrack ==
  [Tool([mode |-> OneOf({"list", "stats"}),
         protocol |-> OneOf({"tcp", "udp", "icmp", "icmpv6", "dccp", "sctp", "gre"})],
        {}, {Needs("protocol", "list")})
   EXCEPT !.root = TRUE, !.always = {"mode"}, !.only = {Only("protocol", {"list"}, {})}]
NetProtocolStats == Tool([protocol |-> OneOfBut({"all", "tcp", "udp", "ip"}, "all")], {}, {})
NftList ==
  [Tool([family |-> OneOf({"ip", "ip6", "inet", "arp", "bridge", "netdev"}), table |-> Text],
        {}, {Needs("family", "table"), Needs("table", "family")})
   EXCEPT !.root = TRUE,
          !.only = {Only("family", {"table"}, {}), Only("table", {"family"}, {})}]
IptablesList ==
  [Tool([table |-> OneOf({"filter", "nat", "mangle", "raw"}), family |-> OneOf({"ipv4", "ipv6"})],
        {}, {})
   EXCEPT !.root = TRUE, !.always = {"family"}]
Dig ==
  [Tool([name |-> Text, server |-> Text, reverse |-> Flag, short |-> Flag, tcp |-> Flag,
         trace |-> Flag, dnssec |-> Flag,
         record_type |-> OneOf({"A", "AAAA", "MX", "NS", "TXT", "CNAME", "SOA", "PTR", "SRV", "CAA",
                                "DS", "DNSKEY", "NAPTR", "ANY"})],
        {"name"}, {Excl("record_type", "reverse")})
   EXCEPT !.only = {Only("record_type", {}, {"reverse"})}]

-----------------------------------------------------------------------------
(* tools/perf.py *)

\* Mutant: a count with no interval is let through.
IostatCountAlone ==
  [Tool([extended |-> Flag, interval |-> Within(1, 60), count |-> Within(1, 100)], {}, {})
   EXCEPT !.only = {Only("count", {"interval"}, {})}]

Iostat ==
  [Tool([extended |-> Flag, kilobytes |-> Flag, megabytes |-> Flag, omit_zero |-> Flag,
         device_only |-> Flag, cpu_only |-> Flag, interval |-> Within(1, 60),
         count |-> Within(1, 100), devices |-> Items],
        {}, {Excl("kilobytes", "megabytes"), Excl("device_only", "cpu_only"),
             Needs("count", "interval")})
   EXCEPT !.only = {Only("count", {"interval"}, {})}]
Vmstat ==
  [Tool([wide |-> Flag, active |-> Flag, disk |-> Flag, summary |-> Flag,
         unit |-> OneOf({"k", "K", "m", "M"}), interval |-> Within(1, 60), count |-> Within(1, 100)],
        {}, {Excl("disk", "summary"), Needs("count", "interval")})
   EXCEPT !.only = {Only("count", {"interval"}, {})}]
Free ==
  Tool([unit |-> OneOf({"human", "bytes", "kilo", "mega", "giga", "tera", "peta"}),
        wide |-> Flag, total |-> Flag, interval |-> Within(1, 60), count |-> Within(1, 100)],
       {}, {Needs("count", "interval")})
Df ==
  Tool([human |-> Flag, inodes |-> Flag, local |-> Flag, print_type |-> Flag, block_size |-> Text,
        exclude_type |-> Items, paths |-> Items],
       {}, {})
Ps ==
  [Tool([mode |-> OneOf({"aux", "auxf", "aux-sort-mem", "aux-sort-cpu", "ef", "efH", "forest"}),
         user |-> Text, pid |-> Pid],
        {}, {Excl("user", "pid")})
   EXCEPT !.always = {"mode"}, !.only = {Only("pid", {}, {"user"})}]
PsiStats ==
  [Tool([resource |-> OneOf({"cpu", "memory", "io", "all"})], {}, {}) EXCEPT !.always = {"resource"}]
Meminfo == [Tool([fields |-> Items], {}, {}) EXCEPT !.pipes = {Pipe("fields", "grep")}]

-----------------------------------------------------------------------------
(* tools/proc.py *)

Lsof ==
  [Tool([pid |-> Pid, user |-> Text, path |-> Text, network_only |-> Flag],
        {}, {Excl("pid", "user")})
   EXCEPT !.only = {Only("user", {}, {"pid"})}]
Pgrep ==
  Tool([pattern |-> Text, full |-> Flag, exact |-> Flag, list_name |-> OnUnlessNo, user |-> Text,
        newest |-> Flag, oldest |-> Flag, parent_pid |-> Pid],
       {"pattern"}, {Excl("newest", "oldest")})
Pidof == Tool([program |-> Text, single_shot |-> Flag], {"program"}, {})
Top == Tool([user |-> Text, sort |-> OneOf({"cpu", "mem", "pid", "time"})], {}, {})
ProcLimits == Tool([pid |-> Pid], {"pid"}, {})

-----------------------------------------------------------------------------
(* tools/sampling.py *)

Sar ==
  [Tool([metrics |-> SomeItems, file |-> Text, start |-> Text, end |-> Text,
         interval |-> Within(1, 60), count |-> Within(1, 100)],
        {}, {Needs("count", "interval"), Excl("interval", "file"), Excl("count", "file"),
             Needs("start", "file"), Needs("end", "file")})
   EXCEPT !.root = TRUE, !.always = {"metrics"}, !.only = {Only("count", {"interval"}, {})}]
Atop ==
  [Tool([mode |-> OneOf({"general", "memory", "disk", "network", "command", "scheduling",
                         "various"}),
         labels |-> SomeItems, file |-> Text, begin |-> Text, end |-> Text,
         interval |-> Within(1, 60), count |-> Within(1, 100)],
        {}, {Excl("mode", "labels"), Excl("interval", "file"), Excl("count", "file"),
             Needs("begin", "file"), Needs("end", "file")})
   EXCEPT !.root = TRUE, !.always = {"interval", "count"},
          !.only = {Only("labels", {}, {"mode"}),
                    Only("begin", {"file"}, {}), Only("end", {"file"}, {}),
                    Only("interval", {}, {"file"}), Only("count", {}, {"file"})}]
Pmrep ==
  [Tool([config |-> OneOf({"vmstat", "iostat", "mpstat", "pidstat", "free", "sar", "tcp"}),
         interval |-> Within(1, 60), samples |-> Within(1, 100), archive |-> Text],
        {}, {})
   EXCEPT !.root = TRUE, !.always = {"config", "interval", "samples"}]

-----------------------------------------------------------------------------
(* tools/sys.py *)

Uptime == Tool([pretty |-> Flag, since |-> Flag], {}, {Excl("pretty", "since")})
Who == Tool([all |-> Flag, boot |-> Flag, login |-> Flag, runlevel |-> Flag, users |-> Flag], {}, {})
Last ==
  Tool([lines |-> Within(1, 1000), user |-> Text, tty |-> Text], {}, {Needs("tty", "user")})
Lscpu ==
  Tool([json |-> Flag, extended |-> Flag, parseable |-> Flag],
       {}, {Excl("json", "extended"), Excl("json", "parseable"), Excl("extended", "parseable")})
Lsmem == Tool([json |-> Flag, summary |-> Flag, bytes |-> Flag], {}, {Excl("json", "summary")})
Dmidecode ==
  [Tool([type |-> OneOf({"bios", "system", "baseboard", "chassis", "processor", "memory", "cache",
                         "connector", "slot"})],
        {"type"}, {})
   EXCEPT !.root = TRUE]
Lspci ==
  Tool([numeric |-> Flag, verbose |-> Flag, kernel |-> Flag, tree |-> Flag],
       {}, {Excl("tree", "verbose"), Excl("tree", "kernel")})
Lsusb == Tool([verbose |-> Flag, tree |-> Flag], {}, {Excl("verbose", "tree")})
Sensors == Tool([json |-> Flag, fahrenheit |-> Flag], {}, {})

-----------------------------------------------------------------------------
\* The names the tools are registered under.
Catalogue ==
  [ read_file |-> ReadFile, find_files |-> FindFiles, read_binary |-> ReadBinary,
    archive_list |-> ArchiveList, archive_read |-> ArchiveRead, du |-> Du, lsblk |-> Lsblk,
    blkid |-> Blkid, smartctl |-> Smartctl, blockdev |-> Blockdev, mount |-> Mount,
    findmnt |-> Findmnt, stat_fs |-> StatFs, stat |-> Stat, dpkg_list |-> DpkgList,
    rpm_list |-> RpmList, apt_list_installed |-> AptListInstalled,
    reboot_required |-> RebootRequired, chronyc |-> Chronyc, timedatectl |-> Timedatectl,
    journalctl |-> Journalctl, systemctl_status |-> SystemctlStatus,
    systemctl_list |-> SystemctlList, systemctl_list_timers |-> SystemctlListTimers,
    systemctl_list_sockets |-> SystemctlListSockets, docker_ps |-> DockerPs,
    docker_inspect |-> DockerInspect, docker_images |-> DockerImages, docker_logs |-> DockerLogs,
    dmesg |-> Dmesg, uname |-> Uname, sysctl |-> Sysctl, slabtop |-> Slabtop, numastat |-> Numastat,
    cgroup_stats |-> CgroupStats, systemd_analyze |-> SystemdAnalyze, lldp_neighbors |-> LldpPorts,
    lldp_interfaces |-> LldpPorts, lldp_statistics |-> LldpPorts, lldp_chassis |-> LldpChassis,
    ss |-> Ss, ip_addr |-> IpAddr, ip_route |-> IpRoute, lsof_net |-> LsofNet,
    arp_table |-> ArpTable, tc_qdisc |-> TcQdisc, ethtool |-> Ethtool, conntrack |-> Conntrack,
    net_protocol_stats |-> NetProtocolStats, nft_list |-> NftList, iptables_list |-> IptablesList,
    dig |-> Dig, iostat |-> Iostat, vmstat |-> Vmstat, free |-> Free, df |-> Df, ps |-> Ps,
    psi_stats |-> PsiStats, meminfo |-> Meminfo, lsof |-> Lsof, pgrep |-> Pgrep, pidof |-> Pidof,
    top |-> Top, proc_limits |-> ProcLimits, sar |-> Sar, atop |-> Atop, pmrep |-> Pmrep,
    uptime |-> Uptime, who |-> Who, last |-> Last, lscpu |-> Lscpu, lsmem |-> Lsmem,
    dmidecode |-> Dmidecode, lspci |-> Lspci, lsusb |-> Lsusb, sensors |-> Sensors]
=============================================================================

----------------------------- MODULE MCReports -----------------------------
(* Hosts for Reports: healthy but for two readings, each at, below and past  *)
(* its thresholds, at zero, or not there.                                    *)
EXTENDS Reports

Healthy ==
  [ load1 |-> 100, nproc |-> 12, memTotal |-> 1000, memAvailable |-> 600, swapTotal |-> 1000,
    swapFree |-> 900, disks |-> <<40>>, failed |-> 0, psiCpu |-> 150, psiMemory |-> 0, psiIo |-> 0,
    oom |-> 0, inodes |-> <<10>>, zombies |-> 0, stuck |-> 0, offset |-> 1, leap |-> 0,
    count |-> 200, max |-> 1000, reboot |-> 0, taint |-> 0, nics |-> <<>> ]

Quiet == [packets |-> 9000, bad |-> 0]
Way(packets, bad) == [packets |-> packets, bad |-> bad]
Readings ==
  [ load1 |-> {1799, 1800, 4799, 4800, None}, nproc |-> {1, 16, None},
    memTotal |-> {None}, memAvailable |-> {49, 50, 99, 100, None},
    swapTotal |-> {0, None}, swapFree |-> {499, 500, 0, None},
    disks |-> {<<>>, <<89>>, <<90>>, <<94, 95>>}, inodes |-> {<<>>, <<89, 100>>, <<94>>},
    failed |-> {1, 2}, psiCpu |-> {2000, 2001, None}, psiMemory |-> {2001}, psiIo |-> {2000, 2001},
    oom |-> {1}, zombies |-> {1}, stuck |-> {4, 5}, offset |-> {10, 11, None}, leap |-> {1, None},
    count |-> {899, 900, 949, 950, None}, max |-> {0, None}, reboot |-> {1},
    taint |-> {1, 12, 512, 4097, None},
    nics |-> {<<Nic(Quiet, Quiet)>>, <<Nic(Way(9998, 100), Quiet)>>, <<Nic(Way(9999, 100), Quiet)>>,
              <<Nic(Quiet, Way(0, 99)), Nic(Quiet, Way(0, 100))>>} ]

MCTriageHosts ==
  UNION {{[Healthy EXCEPT ![a] = x, ![b] = y] : x \in Readings[a], y \in Readings[b]} :
         a \in DOMAIN Readings, b \in DOMAIN Readings}

MCFactsHosts ==
  [ id : {1}, uname : {3, None}, nproc : {16}, memTotal : {1000}, virt : {None, 0, 1},
    container : {None, 0}, vendor : {None, 0, 1}, product : {None, 0, 1},
    binaries : SUBSET (1..Binaries), uptime : {1234}, now : {0}, user : {0, None} ]
=============================================================================

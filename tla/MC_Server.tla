----------------------------- MODULE MC_Server -----------------------------
\* Instances of Server for model checking.
EXTENDS Server

Config(perIp, total, upstream, noProxy) ==
  [perIp |-> perIp, total |-> total, upstream |-> upstream, noProxy |-> noProxy]

Rule(kind, labels, bits) == [kind |-> kind, labels |-> labels, bits |-> bits]

\* 10.0.0.0/8, 172.16.0.0/12, a suffix and a host
Rules == {Rule("host", <<10, 0, 0, 0>>, 8), Rule("host", <<172, 16, 0, 0>>, 12),
          Rule("suffix", <<1001>>, NoBits), Rule("host", <<1002, 1003>>, NoBits)}

\* The limit of an address and a direct way out; that of the service and a
\* proxy of either kind.
EitherLimit == {Config(1, 2, "none", {}), Config(0, 1, "http", Rules),
                Config(0, 1, "socks5", Rules)}

Hosts == {"inside", "local", "outside"}

LabelsOf ==
  [h \in Hosts |-> CASE h = "inside" -> <<10, 1, 2, 3>>
                     [] h = "local" -> <<1001>>
                     [] OTHER -> <<11, 0, 0, 1>>]

\* The last address but one of 172.16.0.0/12
Border == {"border"}

LabelsOfBorder == [h \in Border |-> <<172, 31, 255, 254>>]

\* 100.1.2.3, a host that is not of 10.0.0.0/8
Alike == {"alike"}

LabelsOfAlike == [h \in Alike |-> <<100, 1, 2, 3>>]
=============================================================================

----------------------------- MODULE CommandLine -----------------------------
(* What the process is started with: the arguments, the listen address and    *)
(* the environment of the Docker client.  An argument is its dashes, the name *)
(* after them, whether a "=" follows, and whether more than one character     *)
(* follows the dashes; an address is a sequence of marks, where "0" stands    *)
(* for the text 0.0.0.0 and "127" for 127.0.0.1.                              *)
(* Source: src/cli.rs, host_port.rs, healthcheck.rs, server.rs, docker/mod.rs *)
(* and docker/query.rs.                                                       *)
EXTENDS Labels

VALUE_FLAGS == {"listen-addr", "poll-delay", "log-format", "log-level", "label"}
BOOL_FLAGS == {"containers", "containers-include-swarm", "log-time", "healthcheck", "help"}

CONSTANTS
    Mark,                               \* the marks of a listen address
    MIN_API_VERSION, MAX_API_VERSION,   \* as minor versions of 1.x
    MIN_POLL_DELAY

ASSUME MarkAssumption == {"[", "]", ":", "%", "1", "0", "127"} \subseteq Mark /\ "%25" \notin Mark

Terminator == [dashes |-> 2, name |-> "", eq |-> FALSE, longer |-> FALSE]
TakesValue(argument) ==
    argument.dashes = 2 /\ ~argument.eq /\ argument.name \in VALUE_FLAGS

Cluster(argument) ==
    /\ argument.dashes = 1
    /\ argument.name \in VALUE_FLAGS \cup BOOL_FLAGS \/ argument.longer

ScanStart == [done |-> FALSE, skip |-> FALSE, refused |-> FALSE]

\* Slip: the value after a value flag is looked at as well.
ScanEveryArgument(scan, argument) ==
    IF scan.done THEN scan
    ELSE [done |-> argument = Terminator \/ Cluster(argument), skip |-> FALSE,
          refused |-> Cluster(argument)]

\* One round of the loop; done is its break or return.
ScanArgument(scan, argument) ==
    IF scan.done THEN scan
    ELSE IF scan.skip THEN [scan EXCEPT !.skip = FALSE]
    ELSE [done |-> argument = Terminator \/ Cluster(argument), skip |-> TakesValue(argument),
          refused |-> Cluster(argument)]

\* The loop's state after each argument.
Scanned(arguments) ==
    LET Scan[i \in 0 .. Len(arguments)] ==
            IF i = 0 THEN ScanStart ELSE ScanArgument(Scan[i - 1], arguments[i])
    IN  Scan

refuse_single_dash(arguments) == Scanned(arguments)[Len(arguments)].refused

\* clap's own reading, as the flags are declared: the help, an error or arguments.
\* The empty label is parse_label's error.
ClapAnswers(input) ==
    {"help", "error"} \cup IF <<>> \in Range(input.labels) THEN {} ELSE {"args"}

check_poll_delay(poll_delay) == poll_delay >= MIN_POLL_DELAY

---------------------------------------------------------------------------
(* Addresses.  The result is a set, empty for an error. *)

Has(marks, mark) == mark \in Range(marks)
First(marks, mark) == Min({i \in DOMAIN marks : marks[i] = mark})

split_host_port(host_port) ==
    IF ~Has(host_port, ":") THEN {}
    ELSE
    LET last_colon == Max({i \in DOMAIN host_port : host_port[i] = ":"})
        port == SubSeq(host_port, last_colon + 1, Len(host_port))
        From(i) == SubSeq(host_port, i, Len(host_port))
    IN  IF host_port[1] = "["
        THEN IF ~Has(host_port, "]") THEN {}
             ELSE LET after == First(host_port, "]") + 1
                  IN  IF after # last_colon \/ Has(From(2), "[") \/ Has(From(after), "]") THEN {}
                      ELSE {<<SubSeq(host_port, 2, after - 2), port>>}
        ELSE LET host == SubSeq(host_port, 1, last_colon - 1)
             IN  IF Has(host, ":") \/ Has(host_port, "[") \/ Has(host_port, "]") THEN {}
                 ELSE {<<host, port>>}

join_host_port(host, port) ==
    IF Has(host, ":") THEN <<"[">> \o host \o <<"]", ":">> \o port ELSE host \o <<":">> \o port

\* replace('%', "%25"): the mark "%25" stands for the three characters.
Escaped(marks) == [i \in DOMAIN marks |-> IF marks[i] = "%" THEN "%25" ELSE marks[i]]

\* Slip: the wildcard hosts are kept.
healthcheck_url_as_given(listen_addr) ==
    {Escaped(join_host_port(a[1], a[2])) : a \in split_host_port(listen_addr)}

\* The authority of the URL.
healthcheck_url(listen_addr) ==
    LET Host(host) == CASE host \in {<<>>, <<"0">>} -> <<"127">>
                        [] host = <<":", ":">> -> <<":", ":", "1">>
                        [] OTHER -> host
    IN  {Escaped(join_host_port(Host(a[1]), a[2])) : a \in split_host_port(listen_addr)}

\* Uri and HttpConnector: a percent sign is refused outside brackets; the brackets
\* are dropped and the rest is looked up as it stands, a "%25" included.
Dialled(authority) ==
    LET colon == Max({i \in DOMAIN authority : authority[i] = ":"})
        bracketed == authority[1] = "["
        outside == IF bracketed THEN colon .. Len(authority) ELSE DOMAIN authority
    IN  IF \E i \in outside : authority[i] = "%25" THEN {}
        ELSE {[host |-> IF bracketed THEN SubSeq(authority, 2, colon - 2)
                        ELSE SubSeq(authority, 1, colon - 1),
               port |-> SubSeq(authority, colon + 1, Len(authority))]}

\* Where a probe of the exporter on this address connects to.
Targets(listen_addr) == UNION {Dialled(url) : url \in healthcheck_url(listen_addr)}

\* u16's parse: "1" is any digits in range, the other marks are no digits.
ValidPort(port) == port # <<>> /\ Range(port) = {"1"}

Unscoped(host) == IF Has(host, "%") THEN SubSeq(host, 1, First(host, "%") - 1) ELSE host

\* 0.0.0.0, :: and ::ffff:0.0.0.0, which is 0.0.0.0 in canonical form.
Wildcard(host) ==
    Unscoped(host) \in {<<>>, <<"0">>, <<":", ":">>, <<":", ":", "f", ":", "0">>}

\* bind: the host listened on; a wildcard is "::" for both families, "0.0.0.0" where
\* the system has no IPv6.  Other addresses may not resolve or bind.
bind_address(address, ipv6) ==
    {[host |-> IF ~Wildcard(a[1]) THEN a[1] ELSE IF ipv6 THEN <<":", ":">> ELSE <<"0">>,
      port |-> a[2]] : a \in {b \in split_host_port(address) : ValidPort(b[2])}}

\* The kernel: a connection to a loopback or unspecified address stays on this
\* system, and a dual-stack listener takes IPv4 too.
Reaches(target, bound) ==
    LET loopback4 == {<<"127">>, <<"0">>}
        loopback6 == {<<":", ":", "1">>, <<":", ":">>, <<":", ":", "f", ":", "0">>}
    IN  /\ target.port = bound.port
        /\ \/ target.host = bound.host
           \/ bound.host = <<":", ":">> /\ target.host \in loopback4 \cup loopback6
           \/ bound.host = <<"0">> /\ target.host \in loopback4

---------------------------------------------------------------------------
(* The environment of the Docker client; Config::from_env, external, may      *)
(* refuse the rest.                                                           *)

validate_client_api_version(pin) == pin \in MIN_API_VERSION .. MAX_API_VERSION

\* pin is the set of the pinned version, empty without a pin.
settings_from_env(env) ==
    /\ ~(env.certs /\ ~env.verify /\ env.tcp)
    /\ \A pin \in env.pin : validate_client_api_version(pin)
    /\ env.accepted

=============================================================================

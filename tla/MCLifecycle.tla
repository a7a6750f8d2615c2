----------------------------- MODULE MCLifecycle -----------------------------
(* Two workers and two connections, a budget and a probe of two ticks.  The     *)
(* process starts with every short argument list, every pair of short label    *)
(* names or every short address, the rest of its input as by default.          *)
EXTENDS Lifecycle, SequencesExt

MCLead == [b \in {"lead"} |-> 2]
MCBase == <<<<"k">>, <<"k", "_">>, <<"k", "_", "k">>, <<"k", "k">>>>
MCState == <<"t">>

Names == BoundedSeq({"k", "1", "_", "-", "lead", "cont"}, 2) \cup
             {<<"k", "-", "k">>, <<"k", "_", "k">>, <<"k", "lead", "cont">>, <<"t">>, <<"t", "1">>,
              <<"_", "-", "1">>, <<"1", "k", "-">>, <<"k", "k", "k", "k">>}

Default ==
    [arguments |-> <<>>, labels |-> <<>>, healthcheck |-> FALSE, poll_delay |-> 1,
     listen_addr |-> <<":", "1">>,
     env |-> [certs |-> FALSE, verify |-> FALSE, tcp |-> FALSE, pin |-> {}, accepted |-> TRUE]]

Arguments ==
    {Terminator} \cup
    {[dashes |-> d, name |-> n, eq |-> e, longer |-> e \/ n # "h"] :
        d \in 1 .. 2, n \in {"label", "help", "h", "xy"}, e \in BOOLEAN}
    \cup {[dashes |-> d, name |-> "", eq |-> FALSE, longer |-> FALSE] : d \in 0 .. 1}
    \cup {[dashes |-> 1, name |-> "", eq |-> TRUE, longer |-> l] : l \in BOOLEAN}

Addresses ==
    BoundedSeq({"a", "1", ":", "[", "]"}, 5)
    \cup {host \o <<":", "1">> : host \in {<<"0">>, <<"127">>, <<"a", "%", "a">>, <<"%", "a">>}}
    \cup {<<"[">> \o host \o <<"]", ":", "1">> :
             host \in {<<":", ":">>, <<":", ":", "1">>, <<":", ":", "f", ":", "0">>,
                       <<":", ":", "%", "a">>, <<":", ":", "f", "%", "a">>}}

Environments ==
    [certs : BOOLEAN, verify : BOOLEAN, tcp : BOOLEAN, pin : {{}, {39}, {40}, {56}, {57}},
     accepted : BOOLEAN]

MCInputs ==
    {[Default EXCEPT !.arguments = a] : a \in BoundedSeq(Arguments, 3)}
    \cup {[Default EXCEPT !.labels = l] : l \in BoundedSeq(Names, 2) \cup {<<<<"k", "1">>, <<"1">>, <<"t", "1">>>>}}
    \cup {[Default EXCEPT !.listen_addr = a, !.healthcheck = h] : a \in Addresses, h \in BOOLEAN}
    \cup {[Default EXCEPT !.env = e, !.poll_delay = d] : e \in Environments, d \in 0 .. 1}

=============================================================================

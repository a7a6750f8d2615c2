------------------------------- MODULE Labels --------------------------------
(* Custom label names: how they are sanitized, which are refused, and the     *)
(* label sets of the families built from them.  A name is a sequence of bytes *)
(* and a byte is one of a few classes.                                        *)
(* Source: src/labels.rs, cli.rs, metrics.rs, collector/types.rs, desired.rs, *)
(* replicas_state.rs and service_update.rs.                                   *)
EXTENDS Naturals, Sequences, FiniteSets, FiniteSetsExt, Functions

CONSTANTS
    Byte,                     \* every byte a name may have
    Letter, Digit,            \* bytes of a label name besides "_"
    Lead,                     \* lead bytes of UTF-8 sequences, each with its length
    Continuation,             \* continuation bytes; what is left is other ASCII
    BASE,                     \* stack, service, service_mode and display_name
    STATE_LABEL,                    \* state
    MAX_LABEL_NAME_LEN, MAX_CUSTOM_LABEL_COUNT

RESERVED_LABEL_NAMES == Range(BASE) \cup {STATE_LABEL}

is_label_name_start_byte(byte) == byte = "_" \/ byte \in Letter
is_label_name_byte(byte) == is_label_name_start_byte(byte) \/ byte \in Digit

\* A complete sequence counts whole, anything else one byte.
go_rune_len(bytes, i) ==
    LET width == IF bytes[i] \in DOMAIN Lead THEN Lead[bytes[i]] ELSE 1
    IN  IF /\ i + width - 1 <= Len(bytes)
           /\ \A j \in i + 1 .. i + width - 1 : bytes[j] \in Continuation
        THEN width ELSE 1

\* What the loop pushes from each byte on.
Pushed(bytes) ==
    LET Out[i \in 1 .. Len(bytes) + 1] ==
            IF i > Len(bytes) THEN <<>>
            ELSE <<IF is_label_name_byte(bytes[i]) THEN bytes[i] ELSE "_">>
                 \o Out[i + go_rune_len(bytes, i)]
    IN  Out

sanitize_name(bytes) ==
    LET out == Pushed(bytes)[1]
    IN  IF bytes = <<>> THEN <<"_">>
        ELSE IF is_label_name_start_byte(out[1]) THEN out ELSE <<"_">> \o out

sanitize_label_names(names) == [i \in DOMAIN names |-> sanitize_name(names[i])]

is_valid_label_name(name) ==
    /\ name # <<>> /\ is_label_name_start_byte(name[1])
    /\ \A i \in DOMAIN name : is_label_name_byte(name[i])

ASSUME LabelsAssumption ==
    /\ "_" \in Byte
    /\ \A byte \in DOMAIN Lead : Lead[byte] \in Nat \ {0} /\ ~is_label_name_byte(byte)
    /\ BASE \in Seq(Seq(Byte)) /\ IsInjective(BASE)
    /\ STATE_LABEL \in Seq(Byte) /\ STATE_LABEL \notin Range(BASE)
    /\ \A name \in RESERVED_LABEL_NAMES : is_valid_label_name(name)

\* Slip: two names that sanitize alike are not noticed.
refused_each(names) ==
    \E i \in DOMAIN names :
        LET name == sanitize_name(names[i])
        IN  \/ Len(name) \notin 1 .. MAX_LABEL_NAME_LEN
            \/ (Len(name) > 1 /\ SubSeq(name, 1, 2) = <<"_", "_">>)
            \/ ~is_valid_label_name(name)

\* Which of the checks refuses first is only the text of the error.
validate_and_sanitize_label_names(names) ==
    \E i \in DOMAIN names :
        LET name == sanitize_name(names[i])
        IN  \/ Len(name) \notin 1 .. MAX_LABEL_NAME_LEN
            \/ (Len(name) > 1 /\ SubSeq(name, 1, 2) = <<"_", "_">>)
            \/ ~is_valid_label_name(name)
            \/ \E j \in 1 .. i - 1 : sanitize_name(names[j]) = name

validate_custom_label_count(count) == count > MAX_CUSTOM_LABEL_COUNT

\* Whether the custom labels are accepted.
validate_custom_labels(raw) ==
    /\ ~validate_custom_label_count(Len(raw))
    /\ ~validate_and_sanitize_label_names(raw)
    /\ \A i \in DOMAIN raw : sanitize_name(raw[i]) \notin RESERVED_LABEL_NAMES

---------------------------------------------------------------------------
(* The families' label names and a service's label set.  A label's value is   *)
(* where it comes from: the service's own field, or the raw key looked up.    *)

sanitized_names(raw) == sanitize_label_names(raw)

ReplicaGaugesNames(raw) == sanitize_label_names(BASE \o sanitized_names(raw))
ReplicasStateNames(raw, with_state) ==
    sanitize_label_names(BASE \o (IF with_state THEN <<STATE_LABEL>> ELSE <<>>) \o sanitized_names(raw))
ServiceUpdateNames(raw, with_state) ==
    BASE \o sanitized_names(raw) \o IF with_state THEN <<STATE_LABEL>> ELSE <<>>

\* A later key wins.
labels_for_metadata(raw) ==
    LET names == sanitize_label_names(BASE \o sanitized_names(raw))
        LastOf(name) == Max({i \in DOMAIN names : names[i] = name})
    IN  [name \in Range(names) |->
            IF LastOf(name) <= Len(BASE) THEN [field |-> name]
            ELSE [raw |-> raw[LastOf(name) - Len(BASE)]]]

clone_labels_with_state(labels) ==
    [name \in DOMAIN labels \cup {STATE_LABEL} |-> IF name = STATE_LABEL THEN [field |-> STATE_LABEL] ELSE labels[name]]

\* values_in_order and SnapshotBuilder::set: the names are exactly the family's.
Fits(desc, labels) ==
    Cardinality(DOMAIN labels) = Len(desc) /\ Range(desc) \subseteq DOMAIN labels

\* Every label set an update writes with these custom labels, and its family.
Written(raw) ==
    LET base == labels_for_metadata(raw)
        state == clone_labels_with_state(base)
    IN  {<<ReplicaGaugesNames(raw), base>>, <<ReplicasStateNames(raw, FALSE), base>>,
         <<ReplicasStateNames(raw, TRUE), state>>, <<ServiceUpdateNames(raw, FALSE), base>>,
         <<ServiceUpdateNames(raw, TRUE), state>>}

=============================================================================

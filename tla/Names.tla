------------------------------- MODULE Names -------------------------------
(***************************************************************************)
(* The names of internal/model: what Validate accepts, and the key         *)
(* namespace/name under which the work queue knows a target.  A character  *)
(* stands for its class: "a" for lower-case letters and digits, "X" for    *)
(* everything that no name may contain.                                    *)
(*                                                                         *)
(* Validate is written with Split and a pattern per label.  The properties *)
(* compare it, over every short string, with a definition that looks at    *)
(* positions only.                                                         *)
(***************************************************************************)
EXTENDS Integers, Sequences, FiniteSets

CONSTANTS
    LabelMax,    \* longest label (63)
    NameMax,     \* longest Deployment name (253)
    MaxLen       \* BOUND: the longest string that is tried

ASSUME NamesAssumption == {LabelMax, NameMax, MaxLen} \subseteq Nat

VARIABLES
    key,       \* a string
    parsed     \* what ParseKey makes of it, once it has

namesVars == <<key, parsed>>

Chars == {"a", "-", ".", "/", "X"}
Strings == UNION {[1..n -> Chars] : n \in 0..MaxLen}

-----------------------------------------------------------------------------
(* strings.Split: the pieces between the separators, empty ones included. *)
Split(s, sep) ==
    LET cuts == {i \in DOMAIN s : s[i] = sep}
        from == {1} \cup {i + 1 : i \in cuts}
        Upto(i) == CHOOSE j \in i..(Len(s) + 1) :
                      /\ j \in cuts \cup {Len(s) + 1}
                      /\ \A k \in i..(j - 1) : k \notin cuts
    IN  [n \in 1..(Cardinality(cuts) + 1) |->
            LET i == CHOOSE i \in from : Cardinality({k \in from : k < i}) = n - 1
            IN  SubSeq(s, i, Upto(i) - 1)]

(* Mutant of dnsLabel: a label may end in a hyphen. *)
dnsLabelLax(s) == s # <<>> /\ s[1] = "a" /\ \A i \in DOMAIN s : s[i] \in {"a", "-"}

dnsLabel(s) ==
    /\ s # <<>> /\ s[1] = "a" /\ s[Len(s)] = "a"
    /\ \A i \in DOMAIN s : s[i] \in {"a", "-"}

ValidateNamespace(s, allowEmpty) ==
    \/ s = <<>> /\ allowEmpty
    \/ Len(s) # 0 /\ Len(s) <= LabelMax /\ dnsLabel(s)

(* Target.Validate *)
Validate(t) ==
    /\ ValidateNamespace(t.namespace, FALSE)
    /\ Len(t.name) # 0 /\ Len(t.name) <= NameMax
    /\ LET labels == Split(t.name, ".")
       IN  \A i \in DOMAIN labels : Len(labels[i]) <= LabelMax /\ dnsLabel(labels[i])

Key(t) == t.namespace \o <<"/">> \o t.name

NoTarget == [namespace |-> <<>>, name |-> <<>>]
Failed == [result |-> "failed", target |-> NoTarget]

ParseKey(k) ==
    LET parts == Split(k, "/")
        t == [namespace |-> parts[1], name |-> parts[2]]
    IN  IF Len(parts) # 2 THEN Failed
        ELSE IF Validate(t) THEN [result |-> "ok", target |-> t] ELSE Failed

-----------------------------------------------------------------------------
NamesInit == key \in Strings /\ parsed = [result |-> "none", target |-> NoTarget]

NamesNext == parsed' = ParseKey(key) /\ UNCHANGED key

NamesSpec == NamesInit /\ [][NamesNext]_namesVars

-----------------------------------------------------------------------------
(* The reference: a DNS subdomain in s[i..j] (no dots for a single label). *)
Subdomain(s, i, j, dots) ==
    /\ i <= j
    /\ s[i] = "a" /\ s[j] = "a"
    /\ \A k \in i..j : s[k] \in {"a", "-"} \/ (s[k] = "." /\ dots)
    /\ \A k \in i..j : s[k] = "." => s[k - 1] = "a" /\ s[k + 1] = "a"
    /\ \A k \in i..j : k + LabelMax <= j => \E l \in k..(k + LabelMax) : s[l] = "."

IsKey(s) ==
    \E m \in DOMAIN s :
       /\ s[m] = "/"
       /\ Subdomain(s, 1, m - 1, FALSE) /\ m - 1 <= LabelMax
       /\ Subdomain(s, m + 1, Len(s), TRUE) /\ Len(s) - m <= NameMax

(* Keys are unambiguous: ParseKey succeeds exactly on the keys of valid    *)
(* targets, and gives back the target whose key it is.  Two targets never  *)
(* share a work-queue key, and no valid target is dropped by the worker    *)
(* that parses its key.                                                    *)
ParseKeyIsExact ==
    /\ parsed.result = "ok" => IsKey(key) /\ Key(parsed.target) = key
    /\ parsed.result = "failed" => ~IsKey(key)
=============================================================================

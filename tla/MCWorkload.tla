------------------------------ MODULE MCWorkload ------------------------------
(***************************************************************************)
(* Instances of Workload for TLC: an application container with every      *)
(* combination of absent and present quantities, a sidecar with and        *)
(* without resources, and groups of up to two recommendations, for either  *)
(* container, twice for the same one, for one that is not there, or        *)
(* unparsable.                                                             *)
(***************************************************************************)
EXTENDS Workload

Containers == {"app", "sidecar"}
Resources  == {"cpu", "memory", "storage"}

\* Lists with any of these names, each with one of its quantities.
ListsOf(cpu, memory, storage) ==
    {l \in UNION {[S -> 1 .. 3] : S \in SUBSET Resources} :
        /\ "cpu" \in DOMAIN l     => l["cpu"] \in cpu
        /\ "memory" \in DOMAIN l  => l["memory"] \in memory
        /\ "storage" \in DOMAIN l => l["storage"] \in storage}

Bare == [requests |-> <<>>, limits |-> <<>>]
Full == [requests |-> [cpu |-> 1, memory |-> 1], limits |-> [cpu |-> 2, memory |-> 2]]

TemplatesWith(requests, limits) ==
    {[c \in Containers |-> IF c = "app" THEN [requests |-> r, limits |-> l] ELSE s] :
        r \in requests, l \in limits, s \in {Bare, Full}}

AllTemplates ==
    TemplatesWith(ListsOf({1, 2}, {1}, {1}), ListsOf({1, 2}, {2}, {}))
Complete(lists)  == {l \in lists : Managed \subseteq DOMAIN l}
LimitedTemplates ==
    {t \in TemplatesWith(ListsOf({1, 2}, {1}, {1}), Complete(ListsOf({1, 2}, {2}, {}))) :
        t["sidecar"] = Full}

RecsFor(c, cpus, limits) ==
    {[container |-> c, parses |-> TRUE,
      request |-> [cpu |-> q, memory |-> m], limit |-> [cpu |-> l, memory |-> l]] :
        q \in cpus, m \in {1, 2}, l \in limits}

Garbled == [container |-> "app", parses |-> FALSE,
            request |-> [cpu |-> 1, memory |-> 1], limit |-> [cpu |-> 1, memory |-> 1]]
Missing == [container |-> "gone", parses |-> TRUE,
            request |-> [cpu |-> 1, memory |-> 1], limit |-> [cpu |-> 1, memory |-> 1]]

Groups(cpus, limits) ==
    LET app   == RecsFor("app", cpus, limits)
        other == RecsFor("sidecar", {2}, limits) \cup {Garbled, Missing}
    IN {<<r>> : r \in app} \cup {<<r, s>> : r \in app, s \in app \cup other}

PositiveRecs  == Groups({1, 2, 3}, {2, 3})

\* With limits managed a workload has them (unlimited_rollback: or not).
ByLimits   == [b \in BOOLEAN |-> IF b THEN LimitedTemplates ELSE AllTemplates]
AnyLimited == [b \in {TRUE} |-> AllTemplates]
=============================================================================

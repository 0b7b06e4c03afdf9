-------------------------- MODULE MCGraphProjection --------------------------
(***************************************************************************)
(* Instances of GraphProjection for TLC.                                   *)
(***************************************************************************)
EXTENDS GraphProjection, TLC

Symmetry == Permutations(Runs)

(***************************************************************************)
(* Documents of the contract language: two of the types, in both cases,    *)
(* and up to two entries; and such with the key "contracts" twice.         *)
(***************************************************************************)
LowerCase == [s \in {"schema", "approval", "Schema", "APPROVAL", "other"} |->
  CASE s = "Schema" -> "schema" [] s = "APPROVAL" -> "approval" [] OTHER -> s]
RegistryAgent == [t \in {"schema", "approval"} |->
  IF t = "schema" THEN "ReporterAgent" ELSE "ActionAgent"]
RegistrySeverity == [t \in {"schema", "approval"} |->
  IF t = "schema" THEN "MEDIUM" ELSE "HIGH"]

Labels == {"Schema", "approval", "number", "other"}
TypeFields == {"absent", "null", "number", "schema", "APPROVAL", "other"}
Fields == { {"id", "rule"}, {"id", "failed_agent"},
            {"id", "rule", "severity", "failed_agent"} }
Unset == <<"absent", "absent">>
Outputs == { Unset, <<"scalar", "absent">>, <<"mapping", "null">>,
             <<"mapping", "list">>, <<"mapping", "string">> }
NoApproval == <<"absent", "absent", "absent">>
Approvals == { NoApproval, <<"list", "absent", "absent">>,
               <<"mapping", "null", "absent">>, <<"mapping", "scalar", "absent">>,
               <<"mapping", "mapping", "string">>, <<"mapping", "mapping", "null">> }

EntriesWith(labels) ==
  {Entry(l, t, f, Unset, NoApproval) : l \in labels, t \in TypeFields, f \in Fields} \cup
  {Entry(l, "schema", {"id", "rule"}, o, NoApproval) : l \in labels, o \in Outputs} \cup
  {Entry(l, "APPROVAL", {"id", "rule"}, Unset, a) : l \in labels, a \in Approvals} \cup
  {[Entry(l, "schema", {"id", "rule", "severity", "failed_agent"}, Unset, NoApproval)
      EXCEPT !.blank = b] : l \in labels, b \in SUBSET {"severity", "failed_agent"}} \cup
  {[Entry(l, "absent", {}, Unset, NoApproval) EXCEPT !.value = "string"] : l \in labels}

Plain(label, type) == Entry(label, type, {"id", "rule"}, Unset, NoApproval)

WrittenTwice ==
  {[Document(k, e) EXCEPT !.first = [kind |-> j, labels |-> l]] :
     k \in {"scalar", "list", "mapping"}, j \in {"scalar", "list", "mapping"},
     e \in UNION {[1..n -> {Plain("Schema", "absent"), Plain("approval", "other"),
                            Plain("other", "schema")}] : n \in 0..2},
     l \in UNION {[1..n -> {"Schema", "approval", "number", "other"}] : n \in 0..2}}

SomeDocuments ==
  {Document(k, <<>>) :
     k \in {"blank", "broken", "other", "missing", "scalar", "list", "mapping"}} \cup
  {Document("list", e) :
     e \in UNION {[1..n -> EntriesWith({Unnamed})] : n \in 1..2}} \cup
  {Document("mapping", e) :
     e \in UNION {[1..n -> EntriesWith(Labels)] : n \in 1..2}} \cup
  WrittenTwice

(***************************************************************************)
(* Bodies: a tool and an agent, a gate named like the charged agent, and   *)
(* one given in both forms, which is refused.                              *)
(***************************************************************************)
Named(name) == [name |-> name, id |-> "", kind |-> ""]

AgentAndTool ==
  [nodes  |-> <<[name |-> "reporter", id |-> "search", kind |-> "tool"]>>,
   agents |-> <<Named("reporter")>>, tools |-> <<Named("search")>>,
   edges  |-> {[from |-> "reporter", to |-> "search", kind |-> "handoff"],
               [from |-> "reporter", to |-> "nobody", kind |-> "handoff"]},
   ids    |-> {"C-01"},
   contracts |-> <<>>,
   yaml   |-> Document("list", <<Plain(Unnamed, "schema")>>)]

Gate ==
  [nodes  |-> <<[name |-> "reporter", id |-> "", kind |-> "gate"]>>,
   agents |-> <<>>, tools |-> <<>>, edges |-> {}, ids |-> {"C-02"},
   contracts |-> << {"id", "type", "rule"} >>, yaml |-> NoDocument]

BothForms ==
  [AgentAndTool EXCEPT !.contracts = << {"id", "type", "rule"} >>]

SomeBodies == {AgentAndTool, Gate, BothForms}
OneViolation == {[key |-> "schema", agent |-> "reporter"]}

=============================================================================

----------------------------- MODULE ContractDsl -----------------------------
(***************************************************************************)
(* The contracts of a workflow that is registered: the YAML parser         *)
(* (zone_b/contracts/parser.py, types.py) and the checks that POST         *)
(* /api/workflows makes (api/routes/workflows.py).  Pure operators.        *)
(*                                                                         *)
(* A document is given by what YAML makes of it.  kind is "blank",         *)
(* "broken" (the YAML parser raises), "other" (the root is no mapping),    *)
(* "missing" (no key "contracts"), "scalar", "list" or "mapping" (what     *)
(* "contracts" holds); entries are those of a list or mapping in order.    *)
(* The value of a key is named by its kind ("absent", "null", "scalar",    *)
(* "string", "list", "mapping") where nothing else of it matters.          *)
(*                                                                         *)
(* The key "contracts" may be written twice.  The data has its last value, *)
(* which kind and entries describe; the tree of nodes, which the parser    *)
(* walks, is looked up by the first, of which first has kind and labels.   *)
(***************************************************************************)
EXTENDS Integers, Sequences, SequencesExt

CONSTANTS
  Types,      \* the contract types of CONTRACTS_BY_TYPE, in lower case
  Lower,      \* Lower[s]: the lower case of string s
  AgentOf,    \* AgentOf[t], SeverityOf[t]: what the registry has for type t
  SeverityOf,
  Documents   \* documents that may be posted

(* What stands for the label of an entry of a list. *)
Unnamed == ""

(* The words for no type and no label are no strings of a document. *)
ASSUME DslAssumption ==
  /\ {"schema", "approval"} \subseteq Types
  /\ Types \subseteq DOMAIN Lower
  /\ \A t \in Types : Lower[t] = t /\ SeverityOf[t] # "given"
  /\ DOMAIN Lower \cap {Unnamed, "absent", "null", "number"} = {}

(***************************************************************************)
(* An entry: label is its key in a mapping ("number" is a key that is not  *)
(* a string, Unnamed in a list); value is "mapping" or another kind; type  *)
(* is a string of DOMAIN Lower or "absent", "null", "number"; has are the  *)
(* other keys it has of id, rule, severity, failed_agent, and blank those  *)
(* of them that hold null, "" or another value Python takes for false; the *)
(* last two are the kinds along output.required_keys and                   *)
(* requires.approval_status.eq.                                            *)
(***************************************************************************)
Entry(label, type, has, output, requires) ==
  [label |-> label, value |-> "mapping", type |-> type, has |-> has, blank |-> {},
   output |-> output, requires |-> requires]

LabelsOf(entries) == [n \in DOMAIN entries |-> entries[n].label]

(* A document with one key "contracts". *)
Document(kind, entries) ==
  [kind |-> kind, entries |-> entries,
   first |-> [kind |-> kind, labels |-> LabelsOf(entries)]]

IsDocument(doc) ==
  /\ doc.kind \in {"blank", "broken", "other", "missing", "scalar", "list", "mapping"}
  /\ doc.entries \in Seq(Range(doc.entries))
  /\ doc.first.labels \in Seq(Range(doc.first.labels))

ASSUME DocumentsAssumption == \A doc \in Documents : IsDocument(doc)

REQUIRED_FIELDS == {"id", "rule"}

NothingParsed == [fault |-> "none", entry |-> 0, contracts |-> <<>>]
Rejected(n, fault) == [fault |-> fault, entry |-> n, contracts |-> <<>>]

(* The loop has one turn for each entry of a list, and for each label of   *)
(* the first mapping.                                                      *)
Places(doc) ==
  IF doc.kind = "list" THEN Len(doc.entries) ELSE Len(doc.first.labels)

Labelled(doc, label) == {k \in DOMAIN doc.entries : doc.entries[k].label = label}

(* A mapping with the same key twice keeps the last value for both. *)
RawEntry(doc, n) ==
  LET same == Labelled(doc, doc.first.labels[n])
  IN IF doc.kind = "list" THEN doc.entries[n]
     ELSE doc.entries[CHOOSE k \in same : \A j \in same : j <= k]

(* Mutant: an explicit null is defaulted like a type that is not given. *)
TypeOrLabel(entry) ==
  IF entry.type \in {"absent", "null"} /\ entry.label # Unnamed
  THEN entry.label ELSE entry.type

(* In a mapping the key is the type of an entry that names none. *)
RawType(entry) ==
  IF entry.type = "absent" /\ entry.label # Unnamed THEN entry.label ELSE entry.type

(* _normalize_type: what is wrong with a type. *)
TypeFault(type) ==
  CASE type \in {"absent", "null"} -> "type missing"
    [] type = "number"             -> "type not a string"
    [] type \notin DOMAIN Lower \/ Lower[type] \notin Types -> "unknown type"
    [] OTHER -> "none"

(* _validate_machine_fields: the keys of a path are looked at from above   *)
(* while they hold mappings; null and absent keys end it.                  *)
MachineFault(type, entry) ==
  LET output == entry.output
      requires == entry.requires
  IN \/ /\ type = "schema"
        /\ \/ output[1] \notin {"absent", "null", "mapping"}
           \/ output[1] = "mapping" /\ output[2] \notin {"absent", "null", "list"}
     \/ /\ type = "approval"
        /\ \/ requires[1] \notin {"absent", "null", "mapping"}
           \/ /\ requires[1] = "mapping"
              /\ \/ requires[2] \notin {"absent", "null", "mapping"}
                 \/ requires[2] = "mapping" /\ requires[3] \notin {"absent", "string"}

(* The checks of one entry, in their order; seen are the types before it. *)
EntryFault(entry, seen) ==
  LET type == RawType(entry)
  IN CASE entry.value # "mapping"       -> "not a mapping"
       [] TypeFault(type) # "none"      -> TypeFault(type)
       [] Lower[type] \in seen          -> "duplicate type"
       [] ~ REQUIRED_FIELDS \subseteq entry.has -> "missing fields"
       [] MachineFault(Lower[type], entry)      -> "machine field"
       [] OTHER -> "none"

(* What is not given, or given blank, is taken from the registry's         *)
(* contract of the type.                                                   *)
ContractOf(entry) ==
  LET type  == Lower[RawType(entry)]
      given == entry.has \ entry.blank
  IN [type |-> type,
      severity |-> IF "severity" \in given THEN "given" ELSE SeverityOf[type],
      failed_agent |-> IF "failed_agent" \in given THEN "given" ELSE AgentOf[type]]

TypesOf(contracts) == {contracts[n].type : n \in DOMAIN contracts}

(* One turn of the loop over the entries; a fault ends it. *)
ParseEntry(doc, parsed, n) ==
  LET entry == RawEntry(doc, n)
      fault == EntryFault(entry, TypesOf(parsed.contracts))
  IN IF parsed.fault # "none" THEN parsed
     ELSE IF fault # "none" THEN Rejected(n, fault)
     ELSE [parsed EXCEPT !.contracts = Append(@, ContractOf(entry))]

ParseEntries(doc) ==
  LET parsed[n \in 0..Places(doc)] ==
        IF n = 0 THEN NothingParsed ELSE ParseEntry(doc, parsed[n - 1], n)
  IN parsed[Places(doc)]

(* Labels of the first mapping that are no strings, or not in the data.    *)
BadLabels(doc) ==
  {n \in DOMAIN doc.first.labels :
     \/ doc.first.labels[n] = "number"
     \/ Labelled(doc, doc.first.labels[n]) = {}}

(* The first of them ends _contract_entries with an error or a KeyError.   *)
LabelFault(doc) ==
  LET n == CHOOSE k \in BadLabels(doc) : \A j \in BadLabels(doc) : k <= j
  IN Rejected(n, IF doc.first.labels[n] = "number" THEN "key" ELSE "raised")

(* parse_contracts_yaml: nodes and data must have the same form, and a     *)
(* list with fewer nodes than entries raises an IndexError; the keys of a  *)
(* mapping are all looked at before its entries.                           *)
Parse(doc) ==
  IF doc.kind \notin {"list", "mapping"}      THEN Rejected(0, doc.kind)
  ELSE IF doc.first.kind # doc.kind           THEN Rejected(0, "form")
  ELSE IF doc.kind = "list"
          /\ Len(doc.first.labels) < Len(doc.entries) THEN Rejected(0, "raised")
  ELSE IF doc.kind = "mapping" /\ BadLabels(doc) # {} THEN LabelFault(doc)
  ELSE ParseEntries(doc)

-----------------------------------------------------------------------------
(***************************************************************************)
(* POST /api/workflows.  A body has contracts (objects, by the set of      *)
(* their keys) and yaml, a document or NoDocument.                         *)
(***************************************************************************)
NoDocument == Document("none", <<>>)

(* _normalize_contracts: why the body is refused, if it is; an exception   *)
(* of another class becomes an answer 500 and stores nothing either.       *)
NormalizedFault(body) ==
  CASE body.yaml.kind = "none"  -> "none"
    [] body.contracts # <<>>    -> "both forms"
    [] OTHER -> Parse(body.yaml).fault

(* _validate_contracts looks at the keys of contracts given as objects. *)
AcceptedBody(body) ==
  /\ NormalizedFault(body) = "none"
  /\ body.yaml.kind = "none" =>
       \A n \in DOMAIN body.contracts :
         {"id", "type", "rule"} \subseteq body.contracts[n]

-----------------------------------------------------------------------------
(***************************************************************************)
(* What the language promises, said without the parser's order.            *)
(***************************************************************************)

(* The type entry n means, Unnamed if none. *)
MeantType(doc, n) ==
  LET entry == RawEntry(doc, n)
      named == IF entry.type = "absent" THEN entry.label ELSE entry.type
  IN IF named \in DOMAIN Lower /\ Lower[named] \in Types THEN Lower[named] ELSE Unnamed

(* Entry n is a contract of a supported type with its required fields and  *)
(* machine readable fields of the right shape.                             *)
IsContract(doc, n) ==
  LET entry == RawEntry(doc, n)
  IN /\ entry.value = "mapping"
     /\ MeantType(doc, n) # Unnamed
     /\ "id" \in entry.has /\ "rule" \in entry.has
     /\ MeantType(doc, n) = "schema" =>
          /\ entry.output[1] \in {"absent", "null", "mapping"}
          /\ entry.output[1] # "mapping" \/ entry.output[2] \in {"absent", "null", "list"}
     /\ MeantType(doc, n) = "approval" =>
          /\ entry.requires[1] \in {"absent", "null", "mapping"}
          /\ \/ entry.requires[1] # "mapping"
             \/ entry.requires[2] \in {"absent", "null"}
             \/ entry.requires[2] = "mapping" /\ entry.requires[3] \in {"absent", "string"}

(* The first k entries are contracts of different types. *)
WellFormedUpTo(doc, k) ==
  /\ \A n \in 1..k : IsContract(doc, n)
  /\ \A m, n \in 1..k : MeantType(doc, m) = MeantType(doc, n) => m = n

(* The two values of a key "contracts" written twice fit together: same    *)
(* form, and the last has what the parser looks for by the first.          *)
Readable(doc) ==
  /\ doc.first.kind = doc.kind
  /\ doc.kind = "list" => Len(doc.entries) <= Len(doc.first.labels)
  /\ doc.kind = "mapping" =>
       \A n \in DOMAIN doc.first.labels :
         /\ doc.first.labels[n] # "number"
         /\ \E k \in DOMAIN doc.entries :
              doc.entries[k].label = doc.first.labels[n]

WellFormed(doc) ==
  /\ doc.kind \in {"list", "mapping"}
  /\ Readable(doc)
  /\ WellFormedUpTo(doc, Places(doc))

(* A contract made of entry n has the type that is meant, what is given,   *)
(* and the values of the registry for what is absent or blank.             *)
IsMeant(contract, doc, n) ==
  LET entry == RawEntry(doc, n)
      given(key) == key \in entry.has /\ key \notin entry.blank
  IN /\ contract.type = MeantType(doc, n)
     /\ contract.severity =
          IF given("severity") THEN "given" ELSE SeverityOf[MeantType(doc, n)]
     /\ contract.failed_agent =
          IF given("failed_agent") THEN "given" ELSE AgentOf[MeantType(doc, n)]

(* The parser accepts the well-formed documents and no others; it reports  *)
(* the first entry that is wrong; and what it makes of an accepted one has *)
(* the types that are meant, given values, and those of the registry for   *)
(* what is absent, null or empty.  Of a document that writes "contracts"   *)
(* twice it reads what the last says of the places the first has; what     *)
(* else the two say is accepted unread.                                    *)
ParsesAsMeant(doc) ==
  LET parsed == Parse(doc)
  IN /\ (parsed.fault = "none") <=> WellFormed(doc)
     /\ parsed.fault # "none" =>
          /\ parsed.contracts = <<>>
          /\ doc.kind \in {"list", "mapping"} /\ Readable(doc) =>
               /\ WellFormedUpTo(doc, parsed.entry - 1)
               /\ ~ WellFormedUpTo(doc, parsed.entry)
     /\ parsed.fault = "none" =>
          /\ Len(parsed.contracts) = Places(doc)
          /\ \A n \in 1..Places(doc) : IsMeant(parsed.contracts[n], doc, n)

AllAsMeant == \A doc \in Documents : ParsesAsMeant(doc)

=============================================================================

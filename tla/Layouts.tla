------------------------------- MODULE Layouts -------------------------------
(***************************************************************************)
(* Layouts of Resources: how they are compiled from a Schema, the closed   *)
(* documents a Binding carries, what the parser makes of them, the         *)
(* fingerprint they declare, the table that is created for them and the    *)
(* sorting key that is verified later.                                     *)
(*                                                                         *)
(* Physical names are their logical names: physical_name keeps different   *)
(* columns of a Resource apart.  A fingerprint is the content it is taken  *)
(* over.                                                                   *)
(***************************************************************************)
EXTENDS Integers, Sequences, FiniteSets

CONSTANTS
  Fields,      \* logical names of columns
  HiddenRow,   \* _meridian_row_fingerprint
  HiddenScope  \* _meridian_scope_hash

ASSUME LayoutsAssumption ==
  {HiddenRow, HiddenScope} \cap Fields = {} /\ HiddenRow # HiddenScope

\* An argument or setting that may be missing is a set of at most one value.
Missing == {}
Chosen(option, default) == IF option = Missing THEN default ELSE CHOOSE x \in option : TRUE

Elements(seq) == {seq[i] : i \in DOMAIN seq}
Distinct(seq) == Cardinality(Elements(seq)) = Len(seq)

-----------------------------------------------------------------------------
\* Layouts in memory.

\* Identity and dimension fields, in their order.
Roles(layout) == <<layout.timestamp>> \o layout.identities \o layout.dimensions

\* __post_init__
IsLayout(layout) ==
  /\ layout.columns # {} /\ layout.columns \subseteq Fields
  /\ layout.timestamp \in layout.columns
  /\ layout.identities \in Seq(layout.columns) \ {<< >>}
  /\ layout.dimensions \in Seq(layout.columns)
  /\ Distinct(Roles(layout))
  /\ layout.interval \in {"hour", "day", "month"}
  /\ \A seconds \in layout.retention : seconds > 0
  /\ layout.appendOnly => layout.catalog = "evidence"

-----------------------------------------------------------------------------
\* Compilation.  A Schema has columns, those of them that hold timestamps, an
\* identity and maybe a time-series profile; the caller may override roles.

\* _timestamp_field, where there is no profile
DefaultTimestamp(schema) ==
  IF schema.profile = Missing
    THEN CHOOSE f \in schema.stamps : TRUE ELSE Chosen(schema.profile, {}).timestamp

DefaultIdentities(schema) ==
  IF schema.profile = Missing THEN schema.identity ELSE Chosen(schema.profile, {}).identities

DefaultDimensions(schema) ==
  IF schema.profile = Missing THEN << >> ELSE Chosen(schema.profile, {}).dimensions

\* Plausible mistake: only time-series Schemas become append-only.
MarkedIfProfiled(schema) == schema.catalog = "evidence" /\ schema.profile # Missing

Marked(schema) == schema.catalog = "evidence"

LayoutOf(schema, args) ==
  [catalog |-> schema.catalog, name |-> schema.name, table |-> schema.name,
   columns |-> schema.columns,
   timestamp |-> Chosen(args.timestamp, DefaultTimestamp(schema)),
   identities |-> Chosen(args.identities, DefaultIdentities(schema)),
   dimensions |-> Chosen(args.dimensions, DefaultDimensions(schema)),
   retention |-> args.retention, interval |-> args.interval, topology |-> args.topology,
   final |-> args.final, appendOnly |-> Marked(schema)]

\* compile, up to the layout
Compiles(schema, args) ==
  /\ schema.catalog \in {"structured", "evidence"}
  /\ schema.profile = Missing /\ args.timestamp = Missing => Cardinality(schema.stamps) = 1
  /\ IsLayout(LayoutOf(schema, args))

-----------------------------------------------------------------------------
\* Documents: functions from keys to values.

\* The document with one more key.
With(document, key, value) ==
  [k \in DOMAIN document \cup {key} |-> IF k = key THEN value ELSE document[k]]

Required ==
  {"catalog", "name", "table", "columns", "timestampField", "identityFields", "dimensionFields",
   "retentionSeconds", "partitionInterval", "topology", "queryFinal", "layoutFingerprint"}

Body(layout) ==
  [catalog |-> layout.catalog, name |-> layout.name, table |-> layout.table,
   columns |-> layout.columns, timestampField |-> layout.timestamp,
   identityFields |-> layout.identities, dimensionFields |-> layout.dimensions,
   retentionSeconds |-> layout.retention, partitionInterval |-> layout.interval,
   topology |-> layout.topology, queryFinal |-> layout.final]

\* Plausible mistake: the new field is left out of the document for good.
WithoutMark(layout) == Body(layout)

\* to_dict without its fingerprint; legacy layouts have no appendOnly
Declared(layout) ==
  IF layout.appendOnly THEN With(Body(layout), "appendOnly", TRUE) ELSE Body(layout)

LayoutFingerprint(layout) == Declared(layout)

ToDocument(layout) == 
  With(Declared(layout), "layoutFingerprint", LayoutFingerprint(layout))

\* from_mapping, before the fingerprint is compared
FromFields(document) ==
  [catalog |-> document.catalog, name |-> document.name, table |-> document.table,
   columns |-> document.columns, timestamp |-> document.timestampField,
   identities |-> document.identityFields, dimensions |-> document.dimensionFields,
   retention |-> document.retentionSeconds, interval |-> document.partitionInterval,
   topology |-> document.topology, final |-> document.queryFinal,
   appendOnly |-> "appendOnly" \in DOMAIN document]

Parses(document) ==
  /\ DOMAIN document \ {"appendOnly"} = Required
  /\ "appendOnly" \in DOMAIN document => document["appendOnly"] = TRUE
  /\ IsLayout(FromFields(document))
  /\ document["layoutFingerprint"] = LayoutFingerprint(FromFields(document))

\* ClickHouseSettings.from_binding
BindingAccepts(topology, documents) ==
  /\ documents # << >>
  /\ \A i \in DOMAIN documents :
       Parses(documents[i]) /\ documents[i].topology = topology
  /\ \A i, j \in DOMAIN documents :
       documents[i].catalog = documents[j].catalog /\ documents[i].name = documents[j].name => i = j

-----------------------------------------------------------------------------
\* Tables.

\* order_fields, to which _verify_append_order compares the table's key
OrderFields(layout) ==
  <<HiddenScope, layout.timestamp>> \o layout.identities
    \o (IF layout.appendOnly THEN <<HiddenRow>> ELSE << >>)

\* create_table_ddl
CreateTable(layout) ==
  [table |-> layout.table,
   columns |-> {HiddenScope, HiddenRow} \cup layout.columns,
   engine |-> IF layout.topology = "replicated" THEN "ReplicatedReplacingMergeTree"
              ELSE "ReplacingMergeTree",
   partition |-> <<layout.interval, layout.timestamp>>,
   order |-> <<HiddenScope, layout.timestamp>> \o layout.identities
               \o (IF layout.appendOnly THEN <<HiddenRow>> ELSE << >>),
   ttl |-> layout.retention]

\* adapter_descriptor: the promise holds for every layout of evidence or is not made
EvidenceOf(layouts) == {l \in layouts : l.catalog = "evidence"}

\* Plausible mistake: one append-only layout is enough.
PromisesForSome(layouts) == \E l \in EvidenceOf(layouts) : l.appendOnly

PromisesAppendOnly(layouts) ==
  EvidenceOf(layouts) # {} /\ \A l \in EvidenceOf(layouts) : l.appendOnly

=============================================================================

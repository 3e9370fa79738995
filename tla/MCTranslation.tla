---------------------------- MODULE MCTranslation ----------------------------
EXTENDS Translation, TLC

\* Filters of up to three parts.
Parts(args, kinds) == [kind : kinds, start : {Null}, end : {Null}, args : args]
Ranges == [kind : {"range"}, start : Maybe, end : Maybe, args : {<< >>}] \ {TimeRange(Null, Null)}
Atoms == Ranges \cup {Other}
Negated == Atoms \cup Parts({<<a>> : a \in Atoms}, {"not"})
Expressions == Negated \cup Parts(Negated \X Atoms, {"and", "or"})
MCHeight ==
  [e \in Expressions |-> CASE e \in Atoms -> 0 [] e \in Negated \ Atoms -> 1 [] OTHER -> 2]
Wheres == UNION {[D -> Maybe] : D \in {E \in SUBSET Operators : Cardinality(E) \in 1..3}}
Operations == {"get", "query"}

WirePlans ==
  {[path |-> "wire", operation |-> op, filter |-> e] : op \in Operations, e \in Expressions}
Mappings ==
  {[path |-> "simple", operation |-> op, filter |-> w] : op \in Operations, w \in Wheres}

\* Values of every tag for every type: all fractions of up to Digits digits,
\* integers and decimals one beyond what fits, floats that are the number they
\* spell or a little less or more, bytes with a value (2) that is no text.
Spelled == UNION {[1..n -> 0..(Base - 1)] : n \in 0..Digits}
Stamps == {<<"stamp", Text(c, o, f)>> : c \in -2..2, o \in -1..1, f \in Spelled}
Ints == {<<"int", n>> : n \in -IntLimit - 1..IntLimit}
Decimals ==
  {<<"decimal", [units |-> u, scale |-> s]>> :
     u \in -Power[Precision]..Power[Precision], s \in 0..Scale + 1}
Floats ==
  UNION {{<<"float", [spelled |-> Content(d), exact |-> e]>> :
            e \in {Content(d)}
                  \cup {[units |-> Content(d).units * Base + k, scale |-> Content(d).scale + 1] :
                          k \in {-1, 1}}} : d \in Decimals}
Simple == {<<"plain", 0>>, <<"bool", TRUE>>, <<"object", [members |-> 1, order |-> 1]>>,
           <<"object", [members |-> 1, order |-> 0]>>, <<"jsontext", <<"int", 0>> >>}
Blobs == {<<"base64", b>> : b \in UNION {[1..n -> 0..2] : n \in 0..2}}
SomeValues ==
  {[path |-> "value", kind |-> k, value |-> v] :
     k \in Kinds, v \in Stamps \cup Ints \cup Decimals \cup Floats \cup Simple \cup Blobs}

\* Schemas with the roles the caller leaves to them or overrides.
Schemas ==
  {[catalog |-> c, name |-> n, columns |-> Fields, stamps |-> s, profile |-> p, identity |-> i] :
     c \in {"structured", "evidence", "object"}, n \in {"n", "m"},
     s \in {{}, {"t"}, {"t", "d"}},
     p \in {Missing, {[timestamp |-> "t", identities |-> <<"i">>, dimensions |-> <<"d">>]}},
     i \in {<< >>, <<"i">>, <<"i", "t">>}}
Arguments ==
  {[timestamp |-> t, identities |-> i, dimensions |-> d, retention |-> r, interval |-> "month",
    topology |-> y, final |-> f] :
     t \in {Missing, {"d"}, {"x"}}, i \in {Missing, {<< >>}, {<<"d", "i">>}},
     d \in {Missing, {<<"d">>}}, r \in {Missing, {0}, {1}}, f \in BOOLEAN,
     y \in {"standalone", "replicated"}}
Compilations == {[path |-> "schema", schema |-> s, args |-> a] : s \in Schemas, a \in Arguments}

\* Documents of some of these layouts, of their legacy forms, and edited ones.
Described ==
  {[catalog |-> c, name |-> n, table |-> n, columns |-> Fields, timestamp |-> "t",
    identities |-> <<"i">>, dimensions |-> d, retention |-> r, interval |-> "month",
    topology |-> y, final |-> TRUE, appendOnly |-> a] :
     c \in {"structured", "evidence"}, n \in {"n", "m"}, d \in {<< >>, <<"d">>},
     r \in {Missing, {1}}, y \in {"standalone", "replicated"}, a \in BOOLEAN}
Documented == {ToDocument(l) : l \in {k \in Described : IsLayout(k)}}
Edits(d) ==
  {[d EXCEPT !.timestampField = "d"], [d EXCEPT !.identityFields = <<"i", "d">>],
   [d EXCEPT !.retentionSeconds = {2}], [d EXCEPT !.partitionInterval = "day"],
   [k \in DOMAIN d \ {"appendOnly"} |-> d[k]], d @@ ("appendOnly" :> TRUE),
   d @@ ("appendOnly" :> FALSE), d @@ ("extra" :> 0)}
Edited == UNION {{<<d, e>> : e \in Edits(d)} : d \in Documented}
Bindings ==
  {[path |-> "binding", topology |-> y, documents |-> ds] :
     y \in {"standalone", "replicated"},
     ds \in {<< >>} \cup {<<d, e>> : d, e \in Documented}
             \cup UNION {{<<e>>, <<d, e>>} : <<d, e>> \in Edited}}

MCInputs == <<WirePlans, Mappings, SomeValues, Compilations, Bindings>>

=============================================================================

-------------------------------- MODULE Charts --------------------------------
(***************************************************************************)
(* Which charts a recording is drawn as: data_processor.py from the topics *)
(* recorded and the event's `plots' and `skip_feeds' to a list of titled   *)
(* charts and the files they are written to.                               *)
(*                                                                         *)
(* Topics are 1..n, in the order of their names.  A topic has a path; one  *)
(* that carries an envelope is named, and has its node, sub, group and     *)
(* field.  A title, a group and a field are sequences of words, which have *)
(* no blank in them; a pattern of the config is the set of the topics it   *)
(* matches.                                                                *)
(***************************************************************************)
EXTENDS Naturals, Sequences, FiniteSets, SequencesExt, FiniteSetsExt

CONSTANTS
    Topic,          \* 1..n
    Info,           \* [Topic -> [named, path]] and, named, its node, sub,
                    \*   group and field; group may be empty
    Digit,          \* the components of a path that are numbers
    Merged,         \* the fields _SEMANTIC_MERGE_GROUPS puts together
    Readable,       \* the words some components are written as in a title
    Lower           \* what some words are in the name of a file: in lower
                    \*   case and, where only punctuation, blank

Blank == ""

-----------------------------------------------------------------------------
(* GPS units, by their subnode                                             *)

GpsFieldOf(t) ==
    IF Info[t].named
    THEN IF Info[t].node = "gps" THEN Info[t].field ELSE <<>>
    ELSE IF Info[t].path[1] = "gps" THEN <<Info[t].path[2]>> ELSE <<>>
SubOf(t) == IF Info[t].named THEN Info[t].sub ELSE Last(Info[t].path)

\* Of the positions of one unit the last found is kept
find_gps_streams(topics) ==
    LET positions == {t \in topics : GpsFieldOf(t) = <<"position">>}
    IN {t \in positions : \A u \in positions : SubOf(u) = SubOf(t) => u <= t}

stream_coordinate_topics(topics, stream) ==
    {t \in topics : GpsFieldOf(t) \in {<<"latitude">>, <<"longitude">>} /\ SubOf(t) = SubOf(stream)}

Maps(topics) ==
    LET streams == SetToSortSeq(find_gps_streams(topics), <)
    IN [i \in DOMAIN streams |->
            [title |-> <<"Route", "Map">> \o
                          (IF Len(streams) = 1 THEN <<>> ELSE <<ToString(i - 1)>>),
             topics |-> {streams[i]}]]

-----------------------------------------------------------------------------
(* Groups of topics that go on one chart                                   *)

topic_group_key(t) ==
    IF Info[t].named THEN <<Info[t].node>> \o Info[t].field
    ELSE IF Last(Info[t].path) \in Digit THEN Front(Info[t].path)
    ELSE Info[t].path

\* A key that speaks of a heading or a course
IsMerged(key) == \E i \in DOMAIN key : key[i] \in Merged

\* Topics of one key, and all those of the keys that are merged
Groups(topics) ==
    LET keys == {topic_group_key(t) : t \in topics}
        of(K) == {t \in topics : topic_group_key(t) \in K}
        merged == {k \in keys : IsMerged(k)}
    IN {of({k}) : k \in keys \ merged} \cup (IF merged = {} THEN {} ELSE {of(merged)})

-----------------------------------------------------------------------------
(* What a chart is called                                                  *)

\* What all have in common, if they do; and all they have, between slashes
Only(S) == IF Cardinality(S) = 1 THEN CHOOSE s \in S : TRUE ELSE <<>>
Slashed(S) ==
    LET seq == SetToSeq(S)
    IN FlattenSeq([i \in DOMAIN seq |-> IF i = 1 THEN seq[i] ELSE <<"/">> \o seq[i]])

readable_component(part) == IF part \in DOMAIN Readable THEN Readable[part] ELSE <<part>>
ReadablePath(path) == FlattenSeq([i \in DOMAIN path |-> readable_component(path[i])])

\* Components that all of some paths begin with, without a number at their end
CommonPath(paths) ==
    LET shared == {i \in 1..Min({Len(p) : p \in paths}) :
                    \A j \in 1..i : \A p, q \in paths : p[j] = q[j]}
        some == CHOOSE p \in paths : TRUE
        named == {i \in shared : some[i] \notin Digit}
    IN IF named = {} THEN <<>> ELSE SubSeq(some, 1, Max(named))

group_plot_title(topics) ==
    LET named == \A t \in topics : Info[t].named
        fields == {Info[t].field : t \in topics}
        shared == Only({Info[t].group : t \in topics}) \o Only(fields)
        common == CommonPath({Info[t].path : t \in topics})
    IN IF named /\ shared # <<>> THEN shared
       ELSE IF named /\ fields # {<<>>} THEN Slashed(fields \ {<<>>})
       ELSE IF common # <<>> THEN ReadablePath(common)
       ELSE Slashed({readable_component(Info[t].path[1]) : t \in topics})

\* Mutant: a chart is called what its topics are, whatever others are called
TitleOfNot(specs, names, i) == specs[i].title

\* The title of chart i, where names has those of the charts before it: one
\* that others have is told apart by its node, and by a number after that
TitleOf(specs, names, i) ==
    LET count(title) == Cardinality({j \in DOMAIN specs : specs[j].title = title})
        nodes == {<<Info[t].node>> : t \in {u \in specs[i].topics : Info[u].named}}
        stem == Only(nodes) \o specs[i].title
        candidate(n) == IF n = 1 THEN stem ELSE Append(stem, ToString(n))
        used == {specs[j].title : j \in {k \in DOMAIN specs : count(specs[k].title) = 1}}
                    \cup {names[j] : j \in 1..(i - 1)}
        free == {n \in 1..(Len(specs) + 1) : candidate(n) \notin used}
    IN IF count(specs[i].title) = 1 THEN specs[i].title ELSE candidate(Min(free))

disambiguate_titles(specs) ==
    LET names[i \in 0..Len(specs)] ==
            IF i = 0 THEN <<>> ELSE Append(names[i - 1], TitleOf(specs, names[i - 1], i))
    IN [i \in DOMAIN specs |-> [specs[i] EXCEPT !.title = names[Len(specs)][i]]]

-----------------------------------------------------------------------------
\* Topics off the automatic charts: not wanted, declared, or shown by a map
Taken(topics, skip, declared) ==
    skip \cup UNION {declared[i].topics : i \in DOMAIN declared}
         \cup UNION {{s} \cup stream_coordinate_topics(topics, s) : s \in find_gps_streams(topics)}

auto_generate_plot_config(topics, skip, declared) ==
    LET groups == SetToSortSeq(Groups(topics \ Taken(topics, skip, declared)),
                               LAMBDA g, h : Min(g) < Min(h))
        charts == [i \in DOMAIN groups |->
                    [title |-> group_plot_title(groups[i]), topics |-> groups[i]]]
    IN disambiguate_titles(Maps(topics) \o charts)

\* A declared chart has what its patterns match; one that matches nothing here
\* is not drawn
resolve_declared(topics, plots) ==
    LET resolved == [i \in DOMAIN plots |-> [plots[i] EXCEPT !.topics = @ \cap topics]]
    IN SelectSeq(resolved, LAMBDA spec : spec.topics # {})

Plan(topics, config) ==
    LET declared == resolve_declared(topics, config.plots)
    IN declared \o auto_generate_plot_config(topics, config.skip_feeds \cap topics, declared)

\* The file a chart is written to.  Punctuation and case do not count, so two
\* titles that differ may be one file
title_to_stem(title) ==
    LET lowered == [i \in DOMAIN title |->
                        IF title[i] \in DOMAIN Lower THEN Lower[title[i]] ELSE title[i]]
        stem == SelectSeq(lowered, LAMBDA word : word # Blank)
    IN IF stem = <<>> THEN <<"plot">> ELSE stem
===============================================================================

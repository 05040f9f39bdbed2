---------------------------- MODULE MCPreparation ----------------------------
(* Notes in which fences, labels and other text meet; sets of labels in a   *)
(* fence, for parsing and naming; and each label of the schema by itself    *)
(* and beside others that can make it void.                                 *)
EXTENDS Preparation

App == <<"app">>
Web == <<"web">>

Word(prefix, path, value) == [prefix |-> prefix, path |-> path, value |-> value]
Text(words) == [fence |-> "no", words |-> words]
Marker(info) == [fence |-> info, words |-> <<>>]

\* Paths whose segments have one piece.
Path(segments) == [i \in DOMAIN segments |-> <<segments[i]>>]
Label(segments, value) == Word("traefik", Path(segments), value)
Short(segments, value) == Word("", Path(segments), value)
Domain(i) == <<"domains[", i, "]">>

\* Lines for the reading of notes.
Enable == Label(<<"enable">>, <<"true">>)
ReadingLines == {
  Marker("traefik"), Marker("other"),
  Text(<<Short(<<"enable">>, <<"false">>)>>),
  Text(<<Enable>>),
  Text(<<Short(<<"#">>, NoValue), Enable>>),
  Text(<<Short(<<"see">>, NoValue), Label(<<"port">>, <<"80">>), Enable>>)
}
OddLines == {
  Marker("traefik"),
  Text(<<>>),
  Text(<<Short(<<"text">>, NoValue)>>),
  Text(<<Label(<<>>, <<"80">>), Label(<<"port">>, NoValue)>>),
  Text(<<Label(<<"name">>, <<"web">>), Word("pve", Path(<<"interfaces">>), <<"eth">>)>>),
  Text(<<Label(<<"name">>, <<"web">>), Label(<<"name">>, <<"!">>), Enable>>)
}

\* Labels for the parsing of a fence.
Port(name) == <<"http", "services", name, "loadbalancer", "server", "port">>
TLS(protocol) == Path(<<protocol, "routers", "app", "tls">>)

ParsedLabels == {
  Short(<<"enable">>, <<"maybe">>),
  Short(<<"name">>, <<"!", "web">>),
  Short(<<"name">>, <<"!">>),
  Short(<<"name">>, <<"app">>),
  Short(<<"port">>, <<"80">>),
  Short(<<"port">>, <<"maybe">>),
  Short(<<"tcp", "port">>, <<"90">>),
  Short(<<"tcp", "bogus">>, <<"90">>),
  Short(Port("app"), <<"81">>),
  Short(Port("web"), <<"82">>),
  Short(Port("app"), <<"maybe">>),
  Short(<<"http", "routers", "app">>, <<"80">>),
  Word("", Append(TLS("tcp"), Domain(0)) \o << <<"main">> >>, <<"web">>),
  Word("", Path(<<"tcp", "tls">>) \o <<Domain(0), <<"main">> >>, <<"app">>),
  Word("", Path(<<"tcp", "tls">>) \o <<Domain(1)>>, <<"app">>),
  Word("pve", Path(<<"interfaces">>), <<"eth">>)
}

\* A label for each row, and those beside which it may come to nothing.
Instance(row) ==
  [i \in DOMAIN row.source |->
     CASE row.source[i] = "{name}"    -> App
       [] row.source[i] = "{header}"  -> <<"x", "app">>
       [] row.source[i] = DomainIndex -> Domain(1)
       [] OTHER                       -> <<row.source[i]>>]

RowLabels == {Word("", Instance(row), <<"80">>) : row \in {r \in SchemaRows : r.kind # "bool"}}
        \cup {Word("", Instance(row), <<"false">>) : row \in {r \in SchemaRows : r.kind = "bool"}}

InService(segments) == <<"http", "services", "app", "loadbalancer">> \o segments
Companions == {
  Short(InService(<<"healthcheck", "path">>), <<"web">>),
  Short(InService(<<"sticky", "cookie", "name">>), <<"web">>),
  Short(InService(<<"server", "url">>), <<"web">>),
  Short(InService(<<"server", "url">>), <<>>),
  Short(InService(<<"serverstransport">>), <<"web">>),
  Short(<<"tcp", "address">>, <<"web">>),
  Short(<<"udp", "services", "app", "loadbalancer", "server", "address">>, <<"web">>),
  Short(<<"http", "routers", "app", "entrypoints">>, <<",", "web", ",">>),
  Short(<<"http", "routers", "web", "rule">>, <<"web">>),
  Short(<<"http", "services", "web", "bogus">>, <<"web">>),
  Word("", Append(TLS("http"), Domain(0)), <<"web">>),
  Word("", Append(TLS("http"), Domain(0)) \o << <<"sans">> >>, <<"web", ",", "app">>)
}

Listed(S) == FoldSet(LAMBDA x, list : Append(list, x), <<>>, S)
Seqs(S, n) == UNION {[1 .. k -> S] : k \in 0 .. n}

Fenced(words) == <<Marker("traefik")>> \o [i \in DOMAIN words |-> Text(<<words[i]>>)]

ReadNotes(notes) == [note : notes, mode : Modes, name : {App}]
ParsedNotes(words, names) == [note : {Fenced(w) : w \in words}, mode : {"fenced"}, name : names]

MCInputs ==
  ReadNotes(Seqs(ReadingLines, 4) \cup Seqs(OddLines, 3))
  \cup ParsedNotes({Listed(S) : S \in UNION {kSubset(k, ParsedLabels) : k \in 2 .. 4}},
               {App, <<"!", "app", "pve1">>, <<"!">>})
  \cup ParsedNotes({<<label>> : label \in RowLabels}
               \cup {<<label, other>> : label \in RowLabels, other \in Companions}, {App})

MCIPInputs ==
  ParsedNotes({<<Short(<<"enable">>, <<"true">>), Short(<<"ip">>, <<"81">>), other>> :
                 other \in {Short(<<"port">>, <<"80">>), Short(<<"name">>, <<"web">>)}}, {App})

\* The keys of these labels in the order of their texts; those of labels that
\* are in no note with more than one other follow in any order.
KeyOfWord(w) == [prefix |-> IF w.prefix = "pve" THEN "pve" ELSE "traefik", path |-> w.path]

ListedKeys ==
  <<[prefix |-> "pve", path |-> Path(<<"interfaces">>)]>> \o
  [i \in 1 .. 12 |-> [prefix |-> "traefik", path |->
    << Path(<<"enable">>),
       Path(<<"http", "routers", "app">>),
       Path(Port("app")),
       Path(Port("web")),
       Path(<<"ip">>),
       Path(<<"name">>),
       Path(<<"port">>),
       Path(<<"tcp", "bogus">>),
       Path(<<"tcp", "port">>),
       Append(TLS("tcp"), Domain(0)) \o << <<"main">> >>,
       Path(<<"tcp", "tls">>) \o <<Domain(0), <<"main">> >>,
       Path(<<"tcp", "tls">>) \o <<Domain(1)>> >>[i]]]

MCKeyOrder ==
  ListedKeys \o Listed({KeyOfWord(w) : w \in RowLabels \cup Companions} \ Range(ListedKeys))

MCFallback == <<"vm", "80">>
=============================================================================

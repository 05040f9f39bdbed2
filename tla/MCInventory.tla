----------------------------- MODULE MCInventory -----------------------------
(* Configurations one option apart, and clusters of three guests. *)
EXTENDS Inventory

MCSeconds ==
  ("1m0s" :> 60) @@ ("5s" :> 5) @@ ("4s" :> 4) @@ ("30s" :> 30) @@ ("0s" :> 0) @@ ("-1s" :> -1)

MCNodeOrder == <<"n1", "n2">>

-----------------------------------------------------------------------------
(* Configurations *)

Endpoint(p) == <<[scheme |-> "https", host |-> "pve", path |-> p]>>

\* The defaults, and what has no default.
Given == [CreateConfig EXCEPT !.endpoint = Endpoint(<<>>), !.tokens = {"tokenID", "token"}]

Durations == {NoText, Text("5s"), Text("4s"), Text("0s"), Text("-1s"), Text("soon"),
              Spelt("30s", "blanks"), Spelt("5s", "capitals")}

MCOptionConfigs ==
  {CreateConfig, [Given EXCEPT !.tokens = {"token"}]}
  \cup {[Given EXCEPT !.pollInterval = d] : d \in Durations}
  \cup {[Given EXCEPT !.timeout = d] : d \in Durations}
  \cup {[Given EXCEPT !.ipMode = m] :
          m \in {NoText, Spelt("", "blanks"), Text("6"), Spelt("both", "capitals"), Text("ipv5")}}
  \cup {[Given EXCEPT !.metadataMode = m] :
          m \in {NoText, Spelt("loose", "blanks"), Spelt("auto", "capitals"), Text("strict")}}
  \cup {[Given EXCEPT !.endpoint = e] :
          e \in {Endpoint(p) : p \in {<<"">>, <<"api2", "json">>, <<"api2", "json", "">>, <<"pve">>,
                                     <<"pve", "api2", "json">>}}
            \cup {<<[scheme |-> "", host |-> "", path |-> <<>>]>>}}
  \cup {[Given EXCEPT !.interfaces = i] : i \in {<<>>, <<{}>>, <<{NoText, Spelt("eth0", "blanks")}>>}}
  \cup {[Given EXCEPT !.maxConcurrency = c] : c \in {-1, 0, 1}}

NodeLists ==
  { <<>>, <<Text("n2")>>, <<Spelt("n1", "capitals"), NoText, Text("n1")>>,
    <<Spelt("n2", "blanks"), Spelt("n1", "blanks")>>, <<Text("n3"), Text("n1")>> }

TagLists ==
  { <<>>, <<Text("prod")>>, <<Spelt("prod", "capitals"), Spelt("web", "blanks"), Spelt("", "blanks")>> }

MCFilterConfigs ==
  {[Given EXCEPT !.nodes = n, !.requiredTags = t, !.skipStopped = s] :
     n \in NodeLists, t \in TagLists, s \in BOOLEAN}

MCConfigs == MCOptionConfigs \cup MCFilterConfigs

-----------------------------------------------------------------------------
(* Clusters *)

Guest(type, node, id, status, tags, cfg) ==
  [type |-> type, node |-> node, id |-> id, name |-> "listed", status |-> status,
   tags |-> tags, config |-> cfg]

Web == Guest("qemu", "n1", 103, "running", <<Spelt("prod", "capitals"), Text("web")>>,
             [NoConfig EXCEPT !.name = "web", !.notes = "labels"])
App == Guest("lxc", "n1", 101, "running", <<Text("prod"), NoText>>,
             [NoConfig EXCEPT !.hostname = "app", !.notes = "labels", !.tags = <<Text("web")>>])
Old == Guest("qemu", "n2", 102, "stopped", <<Text("web"), Text("prod")>>,
             [NoConfig EXCEPT !.notes = "labels"])
New2 == Guest("qemu", "n2", 104, "running", <<Text("prod"), Text("web")>>, NoConfig)

Listings == { <<Web, App, Old>>, <<Old, App, Web>>, <<New2, Web, Old>>, <<>> }

\* Listings with a guest that is not described completely.
BadListings ==
  { <<Web, [App EXCEPT !.name = ""]>>, <<Web, [Old EXCEPT !.type = "storage"]>>,
    <<[New2 EXCEPT !.name = ""]>> }

Online == <<[name |-> "n2", status |-> "online"], [name |-> "n1", status |-> ""]>>
OneOffline == <<[name |-> "n1", status |-> "online"], [name |-> "n2", status |-> "offline"]>>

Cluster(p, nodes, guests) == [path |-> p, nodes |-> nodes, guests |-> guests]

MCClusters ==
  {Cluster(APIPath, Online, l) : l \in Listings \cup BadListings}
  \cup {Cluster(APIPath, OneOffline, l) : l \in {<<Web, App, Old>>, <<New2, Web, Old>>}}
  \cup {Cluster(<<"pve">> \o APIPath, Online, <<Web>>)}
=============================================================================

------------------------------ MODULE Mediators ------------------------------
(***************************************************************************)
(* Configuration keys, literals and the framework mediators that link what *)
(* their extractors emit.  A dotted name is the sequence of its segments,  *)
(* its first one a marker ("config_ref::", "api_path::") where the code    *)
(* puts one in front.  A configuration file is the tree of its keys in     *)
(* preorder: `up' is the key around, `holds' the value's sort.  A code     *)
(* file is a sequence of pieces of 150 bytes.  `id' is insertion order.    *)
(***************************************************************************)
EXTENDS Integers, Sequences, FiniteSets

(***************************************************************************)
(* The config extractor: the leaves of files that are not build manifests. *)
(***************************************************************************)
BuildManifests == {"package.json", "Cargo.toml"}

KeyName(keys, n) ==
  LET path[k \in 0..Len(keys)] ==
        IF k = 0 THEN <<>> ELSE Append(path[keys[k].up], keys[k].seg)
  IN  path[n]

ConfigNodes(config, keys) ==
  {[kind |-> "ConfigKey", name |-> KeyName(keys, n), file |-> config,
    at |-> n, id |-> n] :
     n \in {n \in 1..Len(keys) : /\ config \notin BuildManifests
                                 /\ keys[n].holds # "mapping"}}

(***************************************************************************)
(* The literal scanner: each probe runs on the extensions it is for.       *)
(***************************************************************************)
Probes(ext) ==
  [java |-> {"@Value", "route"}, ts |-> {"node env", "route"},
   py   |-> {"python env", "route"}, rs |-> {"rust env"},
   go   |-> {"wire", "route"}][ext]

Prefix(what) == CASE what = "@Value" -> "config_ref::"
                  [] what = "route"  -> "api_path::"
                  [] what = "wire"   -> "go_di_marker::"
                  [] OTHER           -> "env_ref::"

LiteralKind(what) == CASE what = "route" -> "StringLiteral"
                       [] what = "wire"  -> "Function"
                       [] OTHER          -> "ConfigKey"

(* Functions come from the language's own extractor.                       *)
CodeNodes(ext, code, base) ==
  {[kind |-> IF code[n].what = "function" THEN "Function" ELSE LiteralKind(code[n].what),
    name |-> IF code[n].what = "function" THEN code[n].name
             ELSE <<Prefix(code[n].what)>> \o code[n].name,
    file |-> ext, at |-> n, id |-> base + n] :
     n \in {n \in 1..Len(code) : code[n].what \in Probes(ext) \cup {"function"}}}

(***************************************************************************)
(* The mediators: pairs of nodes.                                          *)
(***************************************************************************)
Lowered(name) == [i \in DOMAIN name |-> IF name[i] = "Port" THEN "port" ELSE name[i]]

PascalCased(name) == name[1] \in {"UsersPage", "NewStore", "NewApi"}

(* A bug: names are compared as they are spelt.                            *)
SpringConfigRaw(nodes) ==
  LET keys == {n \in nodes : n.kind = "ConfigKey"}
      refs == {n \in keys : n.name[1] = "config_ref::"}
  IN  {<<r, d>> \in refs \X (keys \ refs) : d.name = Tail(r.name)}

(* A reference reads the last inserted of the keys spelt alike.            *)
SpringConfig(nodes) ==
  LET keys == {n \in nodes : n.kind = "ConfigKey"}
      refs == {n \in keys : n.name[1] = "config_ref::"}
      Spelt(r) == {d \in keys \ refs : Lowered(d.name) = Lowered(Tail(r.name))}
  IN  UNION {{<<r, d>> : d \in {d \in Spelt(r) : \A e \in Spelt(r) : e.id <= d.id}} :
             r \in refs}

ReactRouter(nodes) ==
  {<<r, c>> \in nodes \X nodes :
     /\ r.kind = "StringLiteral" /\ r.name[1] = "/"
     /\ c.file = r.file /\ c.kind \in {"Function", "Class"} /\ PascalCased(c.name)
     /\ 150 * (c.at - r.at) \in -200..200}

DockerCompose(nodes) ==
  LET keys == {n \in nodes : /\ n.kind = "ConfigKey" /\ n.file = "docker-compose.yml"
                             /\ n.name[1] # "config_ref::"}
      services == {n \in keys : Len(n.name) = 2 /\ n.name[1] = "services"}
  IN  {<<s, o>> \in services \X services :
         /\ o # s
         /\ \E k \in keys : /\ Len(k.name) >= 3
                            /\ SubSeq(k.name, 1, 3) = Append(s.name, "depends_on")}

GoDi(nodes) ==
  LET functions == {n \in nodes : n.file = "go" /\ n.kind \in {"Function", "Method"}}
      wired == \E n \in functions : n.name[1] = "go_di_marker::"
      providers == {n \in functions : n.name[1] \in {"NewStore", "NewApi"}}
  IN  {<<a, b>> \in providers \X providers : wired /\ a.id < b.id}

Configures(nodes) ==
  LET By(mediator, pairs) == {[by |-> mediator, from |-> p[1], to |-> p[2]] : p \in pairs}
  IN  By("react-router", ReactRouter(nodes)) \cup By("spring-config", SpringConfig(nodes))
        \cup By("docker-compose", DockerCompose(nodes)) \cup By("go-di", GoDi(nodes))
=============================================================================

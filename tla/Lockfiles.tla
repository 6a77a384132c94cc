------------------------------ MODULE Lockfiles ------------------------------
(***************************************************************************)
(* The lockfile parsers of the CI admission gate (admission/src/lockfiles) *)
(* and, as their reference, the lockfiles the package managers write for a *)
(* set of dependencies.  A key or descriptor is a sequence of tokens: the  *)
(* characters the parsers look for, and words between them.                *)
(***************************************************************************)
EXTENDS Integers, FiniteSets, Sequences

CONSTANTS
  Words,      \* what stands between the characters the parsers look for
  Deps,       \* dependencies: the tokens of their name and their version
  Formats,    \* "npm", "npm1", "pnpm", "yarn", "berry" and "bun"
  MaxEntries  \* bound on the entries of a lockfile

VARIABLE lock   \* a lockfile: its format, its entries, and what the package manager wrote them for

\* What the parsers cut at.
Modules == <<"node_modules/">>
Marks == {"@", "/", ",", "(", Modules[1]}

Token == Words \cup Marks

NoVersion == ""

\* A name has no mark but the @ of a scope and the /, with which it does not begin.
DepsAssumption ==
  /\ Formats \subseteq {"npm", "npm1", "pnpm", "yarn", "berry", "bun"}
  /\ {"w", "v", ")", "range", "npm:", "npm:range", "patch:", "workspace:", "https:", "packages/"} \subseteq Words
  /\ Words \cap Marks = {} /\ NoVersion \notin Words
  /\ Deps \subseteq [name : Seq(Words \cup {"@", "/"}), version : Words]
  /\ \A d \in Deps : d.name # <<>> /\ d.name[1] # "/"
ASSUME DepsAssumption

LockInit == \E f \in Formats : lock = [format |-> f, entries |-> <<>>, deps |-> {}, strays |-> {}]

\* What stands in front of an entry without being part of it: the directory it
\* is nested in, the slash of an older pnpm; and behind it: the peers of pnpm, a
\* further range of the same package.
Fronts(format) ==
  CASE format = "npm" -> {<<>>, Modules \o <<"w">>, <<"@", "w", "/", "w">>}
    [] format = "pnpm" -> {<<>>, <<"/">>}
    [] OTHER -> {<<>>}

Behinds(format) ==
  CASE format = "pnpm" -> {<<>>, <<"(", "w", "@", "v", ")">>}
    [] format \in {"yarn", "berry"} -> {<<>>, <<",", "w", "@", "v">>}
    [] OTHER -> {<<>>}

Plain(format, d) ==
  CASE format = "npm" -> Modules \o d.name
    [] format = "npm1" -> d.name
    [] format = "yarn" -> d.name \o <<"@", "range">>
    [] format = "berry" -> d.name \o <<"@", "npm:range">>
    [] format \in {"pnpm", "bun"} -> d.name \o <<"@", d.version>>

Written(format, d, front, behind) ==
  [key |-> front \o (Plain(format, d) \o behind),
   version |-> IF format \in {"pnpm", "bun"} THEN NoVersion ELSE d.version]

\* An old npm nests the dependencies of a dependency in its entry.
Places == IF lock.format = "npm1" THEN 0..Len(lock.entries) ELSE {0}

Enter(e, place, deps, strays) ==
  /\ Len(lock.entries) < MaxEntries
  /\ lock' = [lock EXCEPT !.entries = Append(@, [key |-> e.key, version |-> e.version, within |-> place]),
                          !.deps = @ \cup deps, !.strays = @ \cup strays]

Add(d, front, behind, place) == Enter(Written(lock.format, d, front, behind), place, {d}, {})

\* An entry that stands for no dependency, and what the parsers take it for:
\* the root and the packages of the project's own (npm's also as links, without
\* a version; an old npm, pnpm and yarn 1 list none), and what is fetched from
\* elsewhere or under another name, whose descriptor may hold a second one.
Other(key, version, read) == [key |-> key, version |-> version, read |-> read]

Stray(name, version) == {[name |-> name, version |-> version]}

Own(format) ==
  CASE format = "npm" -> {Other(<<>>, "v", {}), Other(<<"packages/", "w">>, "v", {}),
                          Other(Modules \o <<"w">>, NoVersion, {})}
    [] format = "berry" -> {Other(<<"w", "@", "workspace:">>, "v", Stray(<<"w">>, "v"))}
    [] format = "bun" -> {Other(<<"w", "@", "workspace:">>, NoVersion, Stray(<<"w">>, "workspace:"))}
    [] OTHER -> {}

Redirected(format, d) ==
  CASE format \in {"yarn", "berry"} ->
         {Other(name \o <<"@", "range">>, d.version, Stray(name, d.version)) :
            name \in {<<"w", "@", "npm:">> \o d.name} \cup
                    (IF format = "berry" THEN {d.name \o (<<"@", "patch:">> \o d.name)} ELSE {})}
    [] format = "npm" -> {Other(Modules \o <<"w">>, d.version, Stray(<<"w">>, d.version))}
    [] format = "npm1" -> {Other(<<"w">>, "npm:", Stray(<<"w">>, "npm:"))}
    [] format = "pnpm" -> {Other(d.name \o <<"@", "https:", "/", "w">>, NoVersion, {})}
    [] OTHER -> {}

AddOther(o, place) == Enter(o, place, {}, o.read)

LockNext ==
  \E place \in Places :
    \/ \E d \in Deps, front \in Fronts(lock.format), behind \in Behinds(lock.format) : Add(d, front, behind, place)
    \/ \E o \in Own(lock.format) : AddOther(o, place)
    \/ \E d \in Deps : \E o \in Redirected(lock.format, d) : AddOther(o, place)

-----------------------------------------------------------------------------
Items(s) == {s[i] : i \in DOMAIN s}

Nowhere == 0
Positions(s, c) == {i \in DOMAIN s : s[i] = c}
indexOf(s, c) == IF Positions(s, c) = {} THEN Nowhere ELSE CHOOSE i \in Positions(s, c) : \A j \in Positions(s, c) : i <= j
lastIndexOf(s, c) == IF Positions(s, c) = {} THEN Nowhere ELSE CHOOSE i \in Positions(s, c) : \A j \in Positions(s, c) : i >= j

Before(s, i) == SubSeq(s, 1, i - 1)
After(s, i) == SubSeq(s, i + 1, Len(s))

\* Mutated: the first node_modules/ of a path.
nameFromPath_First(path) ==
  LET i == indexOf(path, Modules[1]) IN IF i = Nowhere THEN {} ELSE {After(path, i)}

\* What follows the last node_modules/ of a path, if there is one.
nameFromPath(path) ==
  LET i == lastIndexOf(path, Modules[1]) IN IF i = Nowhere THEN {} ELSE {After(path, i)}

\* The name before the last @ that is not the first character, with its version.
parseDescriptor(s) ==
  LET at == lastIndexOf(s, "@")
  IN  IF at <= 1 \/ After(s, at) = <<>> THEN {}
      ELSE {[name |-> Before(s, at), version |-> After(s, at)[1]]}

\* pnpm: without the leading slash and without the peers.
parseKey(rawKey) ==
  LET key == IF rawKey # <<>> /\ rawKey[1] = "/" THEN After(rawKey, 1) ELSE rawKey
      peer == indexOf(key, "(")
      bare == IF peer = Nowhere THEN key ELSE Before(key, peer)
      at == lastIndexOf(bare, "@")
  IN  IF "/" \in Items(After(bare, at)) THEN {} ELSE parseDescriptor(bare)

\* yarn: the name of the first descriptor of a header.
nameFromDescriptors(header) ==
  LET comma == indexOf(header, ",")
      first == IF comma = Nowhere THEN header ELSE Before(header, comma)
      at == lastIndexOf(first, "@")
  IN  IF at <= 1 THEN {} ELSE {Before(first, at)}

\* What has no version is passed over.
Named(names, version) == {[name |-> n, version |-> version] : n \in {m \in names : m # <<>> /\ version # NoVersion}}

ParseEntry(format, e) ==
  CASE format = "npm" -> Named(nameFromPath(e.key), e.version)
    [] format = "npm1" -> Named({e.key}, e.version)
    [] format = "pnpm" -> parseKey(e.key)
    [] format \in {"yarn", "berry"} -> Named(nameFromDescriptors(e.key), e.version)
    [] format = "bun" -> parseDescriptor(e.key)

\* What is found in each entry, in order and each dependency once.
dedupe(parsed) ==
  LET out[i \in 0..Len(parsed)] ==
        IF i = 0 THEN <<>>
        ELSE IF parsed[i] \subseteq Items(out[i - 1]) THEN out[i - 1]
        ELSE Append(out[i - 1], CHOOSE d \in parsed[i] : TRUE)
  IN  out[Len(parsed)]

\* The entries reached by going into the nested dependencies of every entry
\* reached, from the top.
collectV1(entries) ==
  LET reached[i \in 0..Len(entries)] ==
        IF i = 0 THEN {0}
        ELSE IF entries[i].within \in reached[i - 1] THEN reached[i - 1] \cup {i}
        ELSE reached[i - 1]
  IN  reached[Len(entries)]

Visited(format, entries) == IF format = "npm1" THEN collectV1(entries) ELSE DOMAIN entries

parseLockfile ==
  dedupe([i \in DOMAIN lock.entries |->
            IF i \in Visited(lock.format, lock.entries) THEN ParseEntry(lock.format, lock.entries[i]) ELSE {}])

(* Every dependency of a lockfile is checked, once, in every format:       *)
(* scoped or not, nested, with peers or several ranges.  Besides them are  *)
(* checked, once, the packages of the project's own that yarn berry and    *)
(* bun list, and what is fetched elsewhere or under another name, under    *)
(* that name or the whole of its descriptor; and nothing else is.          *)
LockfileIsCovered ==
  LET checked == lock.deps \cup lock.strays
  IN  Items(parseLockfile) = checked /\ Len(parseLockfile) = Cardinality(checked)
=============================================================================

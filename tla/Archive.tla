------------------------------ MODULE Archive ------------------------------
(***************************************************************************)
(* The configuration of a run on its way into the pod: the modules that    *)
(* the root module calls are found, the trees they are in are packed into  *)
(* an archive that must not grow too large, and the runner unpacks it.     *)
(*                                                                         *)
(* A path is the sequence of its names from the root of the file system.   *)
(* The code makes the names of the archive relative to the base of the     *)
(* repository and joins them to the directory in which it unpacks: here    *)
(* the base stands for that directory, and a file that arrives where it    *)
(* belongs has the path it had.                                            *)
(***************************************************************************)
EXTENDS Naturals, FiniteSets, SequencesExt

CONSTANTS
  Base,       \* the root of the repository
  Dirs,       \* directories
  Files,      \* regular files
  Targets,    \* what each symbolic link may lead to; the link may be missing, too
  Roots,      \* modules a run may be of
  MayCall,    \* pairs of a module and the path of a module that it may call
  Ignore,     \* what .terraformignore may contain: sequences of rules
  Longer,     \* pairs of names of which the first begins with the second
  MaxSize     \* of an archive, in entries

Missing == <<>>

Under(p, dir)  == IsPrefix(dir, p)
Rest(p, dir)   == SubSeq(p, Len(dir) + 1, Len(p))
Parent(p)      == Front(p)

\* A line of .terraformignore.
RuleSet ==
  [names: Seq(STRING), anchored: BOOLEAN, tree: BOOLEAN, negated: BOOLEAN]

ASSUME ArchiveAssumption ==
  /\ Base \in Dirs /\ Roots \subseteq Dirs /\ Missing \notin Dirs \cup Files
  /\ Dirs \cup Files \cup DOMAIN Targets \subseteq Seq(STRING)
  /\ Dirs \cap Files = {} /\ IsFiniteSet(DOMAIN Targets)
  /\ Ignore \subseteq Seq(RuleSet)
  /\ \A r \in Roots \cup {edge[1] : edge \in MayCall} : Under(r, Base)
  /\ \A l \in DOMAIN Targets :
       Under(l, Base) /\ l \notin Dirs \cup Files /\ Targets[l] \subseteq Dirs \cup Files
  /\ \A p \in Files \cup DOMAIN Targets : Parent(p) \in Dirs
  /\ \A dir \in Dirs : Parent(dir) \in Dirs \cup {<<>>}
  /\ MaxSize \in Nat

VARIABLES
  repo,      \* what is on the disk of the client
  pc,        \* how far it is
  mods,      \* modules found, the root module first
  calls,     \* the calls of the modules that are being looked into, innermost first
  nested,    \* how many of them have been looked at for nesting
  unnested,  \* modules that are in no other one's tree, of those
  walks,     \* trees that are still to be packed, each with its place in the archive
  archive,   \* entries packed, a set for each tree
  size,      \* of the archive so far
  tree       \* what has been unpacked, by path

vars == <<repo, pc, mods, calls, nested, unnested, walks, archive, size, tree>>

-----------------------------------------------------------------------------

Links == {l \in DOMAIN Targets : repo.links[l] # Missing}
Paths == Dirs \cup Files \cup Links

CallsOf(m) == {call \in repo.calls : call[1] = m}

\* Strings: a sibling whose name goes on counts as well.
HasPrefix(p, q) ==
  \/ Under(p, q)
  \/ /\ Len(q) \in 1..Len(p) /\ Parent(q) = SubSeq(p, 1, Len(q) - 1)
     /\ <<p[Len(q)], Last(q)>> \in Longer

Shadows(q, p) == HasPrefix(p, q) /\ ~Under(p, q)

\* The repositories there may be.
Repos ==
  LET targets == UNION {Targets[l] : l \in DOMAIN Targets} \cup {Missing}
  IN [root: Roots, calls: SUBSET MayCall, ignore: Ignore,
      links: {links \in [DOMAIN Targets -> targets] :
                \A l \in DOMAIN Targets : links[l] \in Targets[l] \cup {Missing}}]

Init ==
  /\ repo \in Repos
  /\ pc = "walk"
  /\ mods = <<repo.root>> /\ calls = <<CallsOf(repo.root)>>
  /\ nested = 0 /\ unnested = <<>>
  /\ walks = <<>> /\ archive = <<>> /\ size = 0 /\ tree = <<>>

-----------------------------------------------------------------------------
(* Walk: the modules that are called, and those that they call.            *)

finding == <<mods, calls, nested, unnested>>
packing == <<walks, archive, size, tree>>

\* The calls of a module are in no order. Nothing looks for a module that is being
\* looked into: of modules that call each other in a circle there is no end.
FindModule ==
  /\ pc = "walk" /\ calls # <<>>
  /\ \E call \in Head(calls) :
       LET rest == <<Head(calls) \ {call}>> \o Tail(calls)
           m == call[2]
       IN IF m \in Dirs THEN /\ mods' = Append(mods, m)
                             /\ calls' = <<CallsOf(m)>> \o rest
                             /\ UNCHANGED pc
          ELSE pc' = "refused" /\ UNCHANGED <<mods, calls>>
  /\ UNCHANGED <<repo, nested, unnested, packing>>

LeaveModule ==
  /\ pc = "walk" /\ calls # <<>> /\ Head(calls) = {}
  /\ calls' = Tail(calls)
  /\ pc' = IF Tail(calls) = <<>> THEN "nest" ELSE pc
  /\ UNCHANGED <<repo, mods, nested, unnested, packing>>

-----------------------------------------------------------------------------
(* RemoveNestedPaths: what is in another tree need not be packed again.    *)

\* The paths that a candidate does not nest.
Without(paths, c) ==
  FoldLeft(LAMBDA kept, p : IF HasPrefix(p, c) THEN kept ELSE Append(kept, p), <<>>, paths)

\* Slip: only what a candidate nests is left out, not what nests it.
UpdateUnnestedOneWay(paths, c) == Append(Without(paths, c), c)

\* Slip: a candidate that nests others is left out like one that is nested.
UpdateUnnestedInPlace(paths, c) ==
  IF \E i \in DOMAIN paths : HasPrefix(c, paths[i]) \/ HasPrefix(paths[i], c)
    THEN paths ELSE Append(paths, c)

\* The first path that nests the candidate decides; one that is equal to the
\* candidate is repeated.
UpdateUnnested(paths, c) ==
  LET nesting == {i \in DOMAIN paths : HasPrefix(c, paths[i])}
      first   == CHOOSE i \in nesting : \A j \in nesting : i <= j
  IN IF nesting = {} THEN Append(Without(paths, c), c)
     ELSE IF paths[first] = c THEN Append(paths, c) ELSE paths

RemoveNestedPath ==
  /\ pc = "nest" /\ nested < Len(mods)
  /\ nested' = nested + 1
  /\ unnested' = UpdateUnnested(unnested, mods[nested + 1])
  /\ UNCHANGED <<repo, pc, mods, calls, packing>>

Walk(src, dst) == [src |-> src, dst |-> dst]

StartPack ==
  /\ pc = "nest" /\ nested = Len(mods)
  /\ walks' = [i \in DOMAIN unnested |-> Walk(unnested[i], unnested[i])]
  /\ pc' = "pack"
  /\ UNCHANGED <<repo, finding, archive, size, tree>>

-----------------------------------------------------------------------------
(* Pack: the rules by which paths are ignored.                             *)

Rule(names, anchored, tree_, negated) ==
  [names |-> names, anchored |-> anchored, tree |-> tree_, negated |-> negated]

DefaultExclusions ==
  << Rule(<<".git">>, FALSE, TRUE, FALSE), Rule(<<".terraform">>, FALSE, TRUE, FALSE),
     Rule(<<".terraform", "modules">>, FALSE, TRUE, TRUE) >>

\* A rule for a tree wants something behind its names, and any other rule nothing.
Matches(rule, names) ==
  \E i \in IF rule.anchored THEN {1} ELSE DOMAIN names :
    LET last == i + Len(rule.names) - 1
    IN /\ last <= Len(names) /\ SubSeq(names, i, last) = rule.names
       /\ IF rule.tree THEN last < Len(names) ELSE last = Len(names)

Rules == DefaultExclusions \o repo.ignore

RelToBase(p) == IF Under(p, Base) THEN Rest(p, Base) ELSE <<"..">> \o p

\* Slip: a path that is wanted somewhere is wanted.
IgnoredUnlessWanted(names) ==
  LET matching == {i \in DOMAIN Rules : Matches(Rules[i], names)}
  IN matching # {} /\ \A i \in matching : ~Rules[i].negated

\* Every rule that matches overrules those before it.
MatchIgnoreRule(names) ==
  FoldLeft(LAMBDA matched, rule : IF Matches(rule, names) THEN ~rule.negated ELSE matched,
           FALSE, Rules)

\* A directory is matched with a slash behind it, and from the root of the file
\* system; anything else from the base.
Ignored(p) ==
  MatchIgnoreRule(IF p \in Dirs THEN <<"">> \o p \o <<"">> ELSE RelToBase(p))

-----------------------------------------------------------------------------
(* Pack: one tree at a time, and a tree that a link leads to when it comes *)
(* to that link.                                                           *)

Place(w, p) == w.dst \o Rest(p, w.src)

\* The paths of a tree that are not ignored; below an ignored directory the walk
\* goes on.
InTree(w, p) == Under(p, w.src) /\ ~Ignored(p) /\ Place(w, p) # Base
Walked(w)    == {p \in Paths : InTree(w, p)}

\* Strings: one path is somewhere in another one.
Within(p, q) == \E k \in 0..Len(p) : HasPrefix(SubSeq(p, k + 1, Len(p)), q)

\* A link stays a link if the path of the tree is in that of what it leads to.
StaysLink(w, l) == Within(repo.links[l], w.src)

\* The name in a link is relative: so many names up from the link, and then down. It
\* is made on the client's disk.
LinkName(l) ==
  LET target == repo.links[l]
      common == LongestCommonPrefix({l, target})
  IN [up |-> Len(l) - Len(common), down |-> Rest(target, common)]

NoName == [up |-> 0, down |-> <<>>]

Entry(w, p) ==
  LET stays == p \in Links /\ StaysLink(w, p)
  IN [path |-> Place(w, p),
      kind |-> IF p \in Dirs THEN "dir" ELSE IF stays THEN "link" ELSE "file",
      name |-> IF stays THEN LinkName(p) ELSE NoName]

\* Slip: the tree is put where it is, not where the link is.
LinkedTreesInPlace(w) ==
  {Walk(repo.links[l], repo.links[l]) :
     l \in {l \in Links : InTree(w, l) /\ ~StaysLink(w, l) /\ repo.links[l] \in Dirs}}

\* A link that leads to a directory elsewhere: the directory is packed at the
\* path that the link has on the disk.
LinkedTrees(w) ==
  {Walk(repo.links[l], l) :
     l \in {l \in Links : InTree(w, l) /\ ~StaysLink(w, l) /\ repo.links[l] \in Dirs}}

EntriesOf(w) ==
  {Entry(w, p) : p \in {p \in Walked(w) :
     p \in Links /\ ~StaysLink(w, p) => repo.links[p] \in Files}}

\* MaxWriter: no more is written than that.
Fits(n) == n <= MaxSize

\* Slip: what is in the archive already is not written again, but walked all the same.
PackOnce ==
  /\ pc = "pack" /\ walks # <<>>
  /\ LET w       == Head(walks)
         entries == EntriesOf(w) \ UNION ToSet(archive)
     IN /\ archive' = IF entries = {} THEN archive ELSE Append(archive, entries)
        /\ walks' = SetToSeq(LinkedTrees(w)) \o Tail(walks)
        /\ size' = size + Cardinality(entries)
        /\ pc' = IF Fits(size') THEN pc ELSE "refused"
  /\ UNCHANGED <<repo, finding, tree>>

Pack ==
  /\ pc = "pack" /\ walks # <<>>
  /\ LET w       == Head(walks)
         entries == EntriesOf(w)
     IN /\ archive' = Append(archive, entries)
        /\ walks' = SetToSeq(LinkedTrees(w)) \o Tail(walks)
        /\ size' = size + Cardinality(entries)
        /\ pc' = IF Fits(size') THEN pc ELSE "refused"
  /\ UNCHANGED <<repo, finding, tree>>

\* The archive is put into the config map of the run.
FinishPack ==
  /\ pc = "pack" /\ walks = <<>>
  /\ pc' = "unpack"
  /\ UNCHANGED <<repo, finding, packing>>

-----------------------------------------------------------------------------
(* Unpack, in the pod.                                                     *)

IsLink(p) == p \in DOMAIN tree /\ tree[p].kind = "link"

\* There is a file or a link, or a directory with something in it: a directory
\* is made when something in it is unpacked.
Exists(t, p) == \E q \in DOMAIN t : Under(q, p) /\ (q = p => t[q].kind # "dir")

\* The links on the way to p are followed.
Above(p) == {q \in DOMAIN tree : IsLink(q) /\ Under(p, q) /\ p # q}

Through(p) ==
  IF Above(p) = {} THEN p
  ELSE LET l == CHOOSE l \in Above(p) : TRUE IN tree[l].leadsTo \o Rest(p, l)

\* A file is written to what a link in its place leads to.
Target(e) ==
  LET p == Through(e.path)
  IN IF e.kind = "file" /\ IsLink(p) THEN tree[p].leadsTo ELSE p

\* A link must not be there yet, and the directories on the way must be possible.
CanUnpack(e) ==
  /\ e.kind = "link" => ~Exists(tree, Through(e.path))
  /\ \A l \in Above(e.path) : Exists(tree, tree[l].leadsTo)
  /\ Target(e) # Through(e.path) => Exists(tree, Parent(Target(e)))

\* A link leads to where its name leads from the place in which it is.
Written(e, p) ==
  [kind |-> e.kind,
   leadsTo |-> IF e.kind = "link" THEN SubSeq(p, 1, Len(p) - e.name.up) \o e.name.down
               ELSE <<>>]

Unpack ==
  /\ pc = "unpack" /\ archive # <<>>
  /\ LET entries == {e \in Head(archive) :
                       e.kind = "dir" => Through(e.path) \notin DOMAIN tree}
         places  == {Target(e) : e \in entries}
     IN IF \A e \in Head(archive) : CanUnpack(e)
          THEN /\ tree' = [p \in places \cup DOMAIN tree |->
                             IF p \in places
                               THEN Written(CHOOSE e \in entries : Target(e) = p, p)
                               ELSE tree[p]]
               /\ UNCHANGED pc
          ELSE pc' = "failed" /\ UNCHANGED tree
  /\ archive' = Tail(archive)
  /\ UNCHANGED <<repo, finding, walks, size>>

FinishUnpack ==
  /\ pc = "unpack" /\ archive = <<>>
  /\ pc' = "done"
  /\ UNCHANGED <<repo, finding, packing>>

Next ==
  FindModule \/ LeaveModule \/ RemoveNestedPath \/ StartPack
    \/ Pack \/ FinishPack \/ Unpack \/ FinishUnpack

Spec == Init /\ [][Next]_vars /\ WF_vars(Next)

-----------------------------------------------------------------------------
(* Properties.                                                             *)

\* What a .terraformignore says: the last rule that speaks of a path decides.
ToBeIgnored(p) ==
  \E i \in DOMAIN Rules :
    /\ Matches(Rules[i], RelToBase(p)) /\ ~Rules[i].negated
    /\ \A j \in DOMAIN Rules : j > i /\ Matches(Rules[j], RelToBase(p)) => ~Rules[j].negated

Modules == ToSet(mods)

Lost(p) == \E q \in Modules : Shadows(q, p)

\* Whatever calls whatever in whatever order, every file of every module that is
\* called, and that is not to be ignored, arrives where it belongs (Walk,
\* RemoveNestedPaths, Pack, Unpack) - but for modules that have a module beside
\* them whose name is the beginning of theirs.
ModulesArrive ==
  pc = "done" =>
    \A m \in Modules, f \in Files :
      Under(f, m) /\ ~Lost(m) /\ ~ToBeIgnored(f) =>
        f \in DOMAIN tree /\ tree[f].kind = "file"

\* Nothing arrives that is to be ignored, or that is in no module that is called,
\* unless a link leads to it (packWalkFn, ruleMatcher).
NothingElseArrives ==
  pc = "done" =>
    \A f \in DOMAIN tree \cap Files :
      /\ ~ToBeIgnored(f) \/ \E l \in Links : repo.links[l] = f
      /\ (\E m \in Modules : Under(f, m)) \/ (\E l \in Links : Under(f, repo.links[l]))

\* What a link of a module leads to has the path of the module in its own, but is
\* not in its tree.
Mistaken(l) ==
  \E q \in Modules : /\ Under(l, q)
                     /\ Within(repo.links[l], q) /\ ~Under(repo.links[l], q)

\* A file that a link of a module leads to can be read by the link in the pod,
\* whether the link has stayed a link or what it leads to was packed in its place
\* (the cases of packWalkFn) - but for a link that packWalkFn takes for one into
\* the tree that it is in, as the path of the tree is found in that of what the
\* link leads to: in /usr/src/app, say, for the tree /src.
LinksLeadToTheSame ==
  pc = "done" =>
    \A m \in Modules, l \in Links, f \in Files :
      LET target == repo.links[l]
          place  == l \o Rest(f, target)
      IN /\ Under(l, m) /\ Under(f, target)
         /\ ~ToBeIgnored(f) /\ ~ToBeIgnored(l) /\ ~Lost(m) /\ ~Mistaken(l)
         => \/ place \in DOMAIN tree /\ tree[place].kind = "file"
            \/ IsLink(l) /\ tree[l].leadsTo \o Rest(f, target) \in DOMAIN tree

\* A tree that is packed in the place of a link of a module has links in it.
LinksBehindLinks ==
  \E u \in ToSet(unnested) : \E w \in LinkedTrees(Walk(u, u)) : Walked(w) \cap Links # {}

\* An archive that was packed can be unpacked, also where links to directories were
\* replaced by what they lead to, unless a module was called twice or what was
\* packed in the place of a link has links again (packWalkFn, Unpack).
ArchivesCanBeUnpacked ==
  pc = "failed" => Cardinality(Modules) < Len(mods) \/ LinksBehindLinks

\* The client is done sometime, also where two links lead into each other's trees and
\* packWalkFn goes from one to the other: the archive grows too large then
\* (MaxWriter). That wants something of those trees to be packed, and no modules that
\* call each other in a circle.
Ends == <>(pc \in {"refused", "failed", "done"})
=============================================================================

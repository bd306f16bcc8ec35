------------------------------ MODULE NginxLoad ------------------------------
(***************************************************************************)
(* The loader of the nginx connector: from an entry file, or the files of  *)
(* a directory, it splices included files in place of include directives,  *)
(* while the files may be rewritten under it.  The recursion of expand is  *)
(* a stack of frames.  A block is expanded like the file around it, and is *)
(* not told apart from it here.                                            *)
(***************************************************************************)
EXTENDS Naturals, Sequences, FiniteSets, SequencesExt

CONSTANTS
  Names,       \* paths, as directives and links write them
  Files,       \* regular files inside the mounted roots
  Directory,   \* name -> [kind |-> "file", "link", "missing", "outside" or "directory", to]
  symlinkHops,
  Contents,    \* file -> what may be in it: sequences of Item, or Bad
  Rewritten,   \* what a file may be rewritten to while it is loaded
  Mounts,      \* what may be mounted: names of a directory in their order, or one name
  Limits,      \* [includes, includeDepth, files]
  MaxRewrites  \* bound on rewrites

\* A directive: an include with the names its pattern matches, sorted, or any other.
Item == [include : {TRUE}, word : {0}, names : Seq(Names)]
          \cup [include : {FALSE}, word : Nat, names : {<<>>}]
\* What cannot be read or parsed, or is too large.
Bad == <<[include |-> FALSE, word |-> 0, names |-> <<>>]>>
NotRead == <<[include |-> TRUE, word |-> 1, names |-> <<>>]>>

VARIABLES
  disk,     \* file -> what is in it
  rewrites, \* so far
  lim,
  entry,    \* the entry files
  todo,     \* those not loaded yet
  stack,    \* frames [file, rest, pending]: directives to come, and files to splice before them
  cache,    \* file -> its directives, or NotRead
  includes, \* expansions so far
  tree,     \* the result: pairs of a file and a word
  status    \* "loading", "ok" or why it failed

vars == <<disk, rewrites, lim, entry, todo, stack, cache, includes, tree, status>>

-----------------------------------------------------------------------------

\* resolve: links are followed one by one.
resolve(name) ==
  LET follow[hops \in 0..symlinkHops] ==
        [n \in Names |->
          CASE Directory[n].kind # "link" -> Directory[n]
            [] Directory[n].kind = "link" /\ hops = 0 -> [kind |-> "loop", to |-> n]
            [] OTHER -> follow[hops - 1][Directory[n].to]]
  IN follow[symlinkHops][name]

\* candidate.
Admitted(name) == resolve(name).kind = "file"
FileOf(name) == resolve(name).to

\* include: what is not there, or not in the mounted paths, is skipped.
include(names) ==
  FlattenSeq([i \in DOMAIN names |-> IF Admitted(names[i]) THEN <<FileOf(names[i])>> ELSE <<>>])

\* entries: nginx.conf, or the one file that is mounted, which must be usable then, else the
\* *.conf files, else all of them.
listed(mount) ==
  CASE mount.main # <<>> -> mount.main
    [] mount.main = <<>> /\ mount.confs # <<>> -> mount.confs
    [] OTHER -> mount.others
entries(mount) == include(listed(mount))

\* Links that lead nowhere are told of; directories, and nothing, are not.
Empty(mount) == \A n \in Range(listed(mount)) : resolve(n).kind = "directory"

Init ==
  /\ disk \in {d \in [Files -> UNION Range(Contents)] : \A f \in Files : d[f] \in Contents[f]}
  /\ rewrites = 0
  /\ lim \in Limits
  /\ \E mount \in Mounts :
       /\ entry = entries(mount)
       /\ status = IF entry = <<>> /\ (mount.main # <<>> \/ Empty(mount)) THEN "unusable" ELSE "loading"
  /\ todo = entry
  /\ stack = <<>>
  /\ cache = [f \in Files |-> NotRead]
  /\ includes = 0
  /\ tree = <<>>

\* Somebody edits a file.
Rewrite(f) ==
  /\ status = "loading"
  /\ rewrites < MaxRewrites
  /\ rewrites' = rewrites + 1
  /\ disk' \in {[disk EXCEPT ![f] = c] : c \in Rewritten \ {disk[f]}}
  /\ UNCHANGED <<lim, entry, todo, stack, cache, includes, tree, status>>

Fail(why) == status' = why /\ UNCHANGED <<todo, stack, cache, includes, tree>>
FilesRead == Cardinality({f \in Files : cache[f] # NotRead})
Frame(f, ds) == [file |-> f, rest |-> ds, pending |-> <<>>]

\* read: a file is parsed once, then what was read is used.
IsCached(f) == cache[f] # NotRead

\* The frames below are as they are to be, the file is read and goes on top.
Read(f, below) ==
  CASE IsCached(f) ->
         /\ stack' = Append(below, Frame(f, cache[f]))
         /\ UNCHANGED <<cache, status>>
    [] ~IsCached(f) /\ disk[f] # Bad /\ FilesRead < lim.files ->
         /\ stack' = Append(below, Frame(f, disk[f]))
         /\ cache' = [cache EXCEPT ![f] = disk[f]]
         /\ UNCHANGED status
    [] OTHER ->
         /\ status' = IF disk[f] = Bad THEN "unreadable" ELSE "files"
         /\ UNCHANGED <<stack, cache>>

Enter ==
  /\ status = "loading"
  /\ stack = <<>>
  /\ todo # <<>>
  /\ Read(Head(todo), <<>>)
  /\ todo' = Tail(todo)
  /\ UNCHANGED <<disk, rewrites, lim, entry, includes, tree>>

Top == Last(stack)
WithTop(frame) == Append(Front(stack), frame)

\* Seeded fault: a file that was included before is taken for a cycle.
OnStackOrDone(f) == cache[f] # NotRead
OnStack(f) == \E i \in DOMAIN stack : stack[i].file = f

TooDeep == Len(stack) >= lim.includeDepth

\* The next of the files of an include directive.
Splice ==
  /\ status = "loading"
  /\ stack # <<>>
  /\ Top.pending # <<>>
  /\ LET f == Head(Top.pending) IN
     CASE includes + 1 > lim.includes -> Fail("includes")
       [] includes + 1 <= lim.includes /\ OnStack(f) -> Fail("cycle")
       [] includes + 1 <= lim.includes /\ ~OnStack(f) /\ TooDeep -> Fail("depth")
       [] OTHER ->
            /\ Read(f, WithTop([Top EXCEPT !.pending = Tail(@)]))
            /\ includes' = includes + 1
            /\ UNCHANGED <<todo, tree>>
  /\ UNCHANGED <<disk, rewrites, lim, entry>>

\* The next directive.
Expand ==
  /\ status = "loading"
  /\ stack # <<>>
  /\ Top.pending = <<>>
  /\ Top.rest # <<>>
  /\ LET d == Head(Top.rest) IN
     /\ stack' = WithTop([Top EXCEPT !.rest = Tail(@), !.pending = include(d.names)])
     /\ tree' = IF d.include THEN tree ELSE Append(tree, <<Top.file, d.word>>)
  /\ UNCHANGED <<disk, rewrites, lim, entry, todo, cache, includes, status>>

Return ==
  /\ status = "loading"
  /\ stack # <<>>
  /\ Top.pending = <<>> /\ Top.rest = <<>>
  /\ stack' = Front(stack)
  /\ UNCHANGED <<disk, rewrites, lim, entry, todo, cache, includes, tree, status>>

Finish ==
  /\ status = "loading"
  /\ stack = <<>> /\ todo = <<>>
  /\ status' = "ok"
  /\ UNCHANGED <<disk, rewrites, lim, entry, todo, stack, cache, includes, tree>>

Next == (\E f \in Files : Rewrite(f)) \/ Enter \/ Splice \/ Expand \/ Return \/ Finish

Spec == Init /\ [][Next]_vars

-----------------------------------------------------------------------------
\* The reference: what was read, unfolded.

Unfolded ==
  LET n == Cardinality(Files)
      u[depth \in 0..n] ==
        [f \in Files |->
          IF depth = 0 \/ cache[f] = NotRead THEN <<>>
          ELSE FlattenSeq([i \in DOMAIN cache[f] |->
                 LET d == cache[f][i]
                     fs == include(d.names)
                 IN IF d.include THEN FlattenSeq([j \in DOMAIN fs |-> u[depth - 1][fs[j]]])
                    ELSE <<<<f, d.word>>>>])]
  IN u[n]

\* f includes g.
Mentions(f, g) == \E i \in DOMAIN cache[f] : g \in Range(include(cache[f][i].names))

\* Files that include each other in a circle.
Circle ==
  \E n \in 1..Cardinality(Files) : \E fs \in [1..n -> Files] :
    \A i \in 1..n : Mentions(fs[i], fs[IF i = n THEN 1 ELSE i + 1])

\* expand: the tree is what the files said when they were read, each file once and for all
\* its places, in the order nginx reads them.
LoadedIsUnfolded ==
  status = "ok" =>
    tree = FlattenSeq([i \in DOMAIN entry |-> Unfolded[entry[i]]])

\* expand: a cycle is reported when, and only when, a file includes itself, under whatever
\* name; a file included from many places is none.
CycleIsReal ==
  /\ status = "cycle" => Circle
  /\ status = "ok" => ~Circle

\* expand, limits: a config that is refused as nested too deep is, whatever was in its files
\* before and however often they are included.
DepthIsReal ==
  status = "depth" =>
    \E fs \in [1..(lim.includeDepth + 1) -> Files] :
      /\ \A i \in 1..lim.includeDepth : Mentions(fs[i], fs[i + 1])
      /\ \A i, j \in DOMAIN fs : fs[i] = fs[j] => i = j
=============================================================================

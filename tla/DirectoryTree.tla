---------------------------- MODULE DirectoryTree ---------------------------
(***************************************************************************)
(* The functions of KM_fileio that change or resolve a tree of directories *)
(* with symbolic links, a system call at a time: DeletePath,               *)
(* DeleteDirectoryIfEmpty, CreateDirectoriesInPath and PathResolveLinks.   *)
(* Another program may add to the tree meanwhile.                          *)
(*                                                                         *)
(* A path is a sequence of names from the root, in canonical form.  Links  *)
(* hold absolute paths.                                                    *)
(***************************************************************************)
EXTENDS Naturals, Sequences, FiniteSets, SequencesExt

CONSTANTS
  Names,      \* names of directory entries
  Links,      \* what a link may lead to
  Asked,      \* the paths the functions are given
  MaxLinks,   \* links the kernel follows in a path (40 on Linux)
  MaxEvents   \* bound: refused calls, and entries another program adds

TreeAssumption ==
  /\ Links \cup Asked \subseteq Seq(Names) /\ "nowhere" \notin Names
  /\ MaxLinks \in Nat /\ MaxEvents \in Nat

VARIABLES
  tree,   \* path -> what is there, the root left out
  job,    \* the function that runs, its path, where it is, and its result
  stack,  \* the directories h__DeletePath is in, innermost first
  first,  \* history: the tree before the call
  events  \* history: who interfered

vars == <<tree, job, stack, first, events>>

File == [type |-> "file", to |-> <<>>]
Dir == [type |-> "dir", to |-> <<>>]
Link(to) == [type |-> "link", to |-> to]
Nowhere == <<"nowhere">>

-----------------------------------------------------------------------------
(* The kernel's view of a path *)

IsDir(t, at) == at = <<>> \/ (at \in DOMAIN t /\ t[at].type = "dir")

\* Walks on the way: the links that may still be followed, the place reached, and
\* the rest of the path
Walking == [links : 0 .. MaxLinks, at : Seq(Names), rest : Seq(Names)]
On(links, at, rest) == [links |-> links, at |-> at, rest |-> rest]

\* The place that each leads to. A link in the last place is followed or not.
Walks(t, follow) ==
  LET walk[w \in Walking] ==
        IF w.rest = <<>> THEN w.at
        ELSE LET next == Append(w.at, Head(w.rest))
             IN  IF ~IsDir(t, w.at) \/ next \notin DOMAIN t THEN Nowhere
                 ELSE IF t[next].type # "link" \/ (Len(w.rest) = 1 /\ ~follow)
                 THEN walk[On(w.links, next, Tail(w.rest))]
                 ELSE IF w.links = 0 THEN Nowhere
                 ELSE walk[On(w.links - 1, <<>>, t[next].to \o Tail(w.rest))]
  IN  walk

Walk(t, path, follow) == Walks(t, follow)[On(MaxLinks, <<>>, path)]

Target(t, path) == Walk(t, path, TRUE)     \* stat
Entry(t, path) == Walk(t, path, FALSE)     \* lstat

PathIsDirectory(t, path) == Target(t, path) # Nowhere /\ IsDir(t, Target(t, path))
Listing(t, path) == {n \in Names : Append(Target(t, path), n) \in DOMAIN t}
Under(path, at) == Len(path) <= Len(at) /\ SubSeq(at, 1, Len(path)) = path

\* The tree with an entry more, or less
With(t, at, node) == [p \in DOMAIN t \cup {at} |-> IF p = at THEN node ELSE t[p]]
Without(t, at) == [p \in DOMAIN t \ {at} |-> t[p]]

-----------------------------------------------------------------------------
(* The trees at the start: entries of the root, and of directories in it *)

Leaves == {File} \cup {Link(to) : to \in Links}
Subtrees == UNION {[d -> Leaves] : d \in SUBSET Names}
RootEntries == {[node |-> l, in |-> [n \in {} |-> File]] : l \in Leaves} \cup {[node |-> Dir, in |-> s] : s \in Subtrees}

TreeOf(root) ==
  [p \in {<<n>> : n \in DOMAIN root} \cup UNION {{<<n, m>> : m \in DOMAIN root[n].in} : n \in DOMAIN root} |->
     IF Len(p) = 1 THEN root[p[1]].node ELSE root[p[1]].in[p[2]]]

Trees == {TreeOf(root) : root \in UNION {[d -> RootEntries] : d \in SUBSET Names}}

Paths == {<<n>> : n \in Names} \cup {<<n, m>> : n, m \in Names}

Frame(path) == [path |-> path, at |-> "enter", was |-> {}, seen |-> {}]

Init ==
  /\ tree \in Trees
  /\ first = tree
  /\ \E op \in {"DeletePath", "DeleteDirectoryIfEmpty", "CreateDirectoriesInPath", "PathResolveLinks"}, path \in Asked :
       /\ job = [op |-> op, path |-> path, pc |-> "start", done |-> 0, out |-> <<>>, result |-> "OK"]
       /\ stack = IF op = "DeletePath" THEN <<Frame(path)>> ELSE <<>>
  /\ events = [refused |-> 0, added |-> {}]

Quiet == events.refused = 0 /\ events.added = {}
Refuse == /\ events.refused + Cardinality(events.added) < MaxEvents
          /\ events' = [events EXCEPT !.refused = @ + 1]

Returns(result) == job' = [job EXCEPT !.pc = "done", !.result = result]

\* Another program makes a file or a directory.
Other ==
  /\ job.pc # "done" /\ events.refused + Cardinality(events.added) < MaxEvents
  /\ \E at \in Paths \ DOMAIN tree : \E node \in {File, Dir} :
       /\ IsDir(tree, Front(at))
       /\ tree' = With(tree, at, node)
       /\ events' = [events EXCEPT !.added = @ \cup {at}]
  /\ UNCHANGED <<job, stack, first>>

-----------------------------------------------------------------------------
(* h__DeletePath *)

Top == stack[1]

\* The frame returns, and its result is the loop's of the frame that called it.
Pop(result) ==
  /\ stack' = Tail(stack)
  /\ IF Len(stack) = 1 THEN Returns(result) ELSE job' = [job EXCEPT !.result = result]

Deleting == stack # <<>> /\ job.op \in {"DeletePath", "DeleteDirectoryIfEmpty"}

\* PathIsDirectory, and then opendir
EnterDirectory ==
  /\ Deleting /\ Top.at = "enter" /\ PathIsDirectory(tree, Top.path)
  /\ \/ /\ stack' = [stack EXCEPT ![1].at = "scan", ![1].was = Listing(tree, Top.path)]
        /\ job' = [job EXCEPT !.result = "OK"] /\ UNCHANGED events
     \/ Refuse /\ stack' = [stack EXCEPT ![1].at = "rmdir"] /\ job' = [job EXCEPT !.result = "NO_PERM"]
  /\ UNCHANGED <<tree, first>>

\* DeleteFile
Unlink ==
  /\ Deleting /\ Top.at = "enter" /\ ~PathIsDirectory(tree, Top.path)
  /\ LET at == Entry(tree, Top.path)
     IN  \/ at = Nowhere /\ Pop("NOTAFILE") /\ UNCHANGED <<tree, events>>
         \/ at # Nowhere /\ ~IsDir(tree, at) /\ tree' = Without(tree, at) /\ Pop("OK") /\ UNCHANGED events
         \/ at # Nowhere /\ IsDir(tree, at) /\ Pop("FAIL") /\ UNCHANGED <<tree, events>>
         \/ at # Nowhere /\ Refuse /\ Pop("NO_PERM") /\ UNCHANGED tree
  /\ UNCHANGED first

\* Mutant: an entry is taken for one of the working directory, here the root.
ChildAlone(path, n) == <<n>>

\* pathname + "/" + next_file
Child(path, n) == Append(path, n)

\* GetNext, while the last entry could be deleted. An entry made since the
\* directory was opened may be returned or not.
NextEntry ==
  /\ Deleting /\ Top.at = "scan" /\ job.result = "OK"
  /\ \E n \in (Top.was \cup Listing(tree, Top.path)) \ Top.seen :
       stack' = <<Frame(Child(Top.path, n)), [Top EXCEPT !.seen = @ \cup {n}]>> \o Tail(stack)
  /\ UNCHANGED <<tree, job, first, events>>

LastEntry ==
  /\ Deleting /\ Top.at = "scan"
  /\ job.result # "OK" \/ Top.was \subseteq Top.seen
  /\ stack' = [stack EXCEPT ![1].at = "rmdir"]
  /\ UNCHANGED <<tree, job, first, events>>

\* rmdir, whose failure replaces the result
RemoveDirectory ==
  /\ Deleting /\ Top.at = "rmdir"
  /\ LET at == Entry(tree, Top.path)
     IN  \/ at \in DOMAIN tree /\ tree[at].type # "dir" /\ Pop("NOTAFILE") /\ UNCHANGED <<tree, events>>
         \/ at = Nowhere /\ Pop("NOTAFILE") /\ UNCHANGED <<tree, events>>
         \/ at = <<>> /\ Pop("FAIL") /\ UNCHANGED <<tree, events>>
         \/ /\ at \in DOMAIN tree /\ IsDir(tree, at) /\ Listing(tree, Top.path) # {}
            /\ Pop("FAIL") /\ UNCHANGED <<tree, events>>
         \/ /\ at \in DOMAIN tree /\ IsDir(tree, at) /\ Listing(tree, Top.path) = {}
            /\ tree' = Without(tree, at) /\ Pop(job.result) /\ UNCHANGED events
         \/ at \in DOMAIN tree /\ Refuse /\ Pop("NO_PERM") /\ UNCHANGED tree
  /\ UNCHANGED first

\* DeleteDirectoryIfEmpty: the path is read once, and then given to DeletePath.
CheckEmpty ==
  /\ job.op = "DeleteDirectoryIfEmpty" /\ job.pc = "start"
  /\ \/ ~PathIsDirectory(tree, job.path) /\ Returns("NOTAFILE") /\ UNCHANGED <<stack, events>>
     \/ PathIsDirectory(tree, job.path) /\ Refuse /\ Returns("NO_PERM") /\ UNCHANGED stack
     \/ /\ PathIsDirectory(tree, job.path) /\ Listing(tree, job.path) # {}
        /\ Returns("NOT_EMPTY") /\ UNCHANGED <<stack, events>>
     \/ /\ PathIsDirectory(tree, job.path) /\ Listing(tree, job.path) = {}
        /\ job' = [job EXCEPT !.pc = "delete"] /\ stack' = <<Frame(job.path)>> /\ UNCHANGED events
  /\ UNCHANGED <<tree, first>>

-----------------------------------------------------------------------------
(* CreateDirectoriesInPath: for each start of the path, PathIsDirectory     *)
(* and mkdir                                                               *)

Prefix(n) == SubSeq(job.path, 1, n)
Creating == job.op = "CreateDirectoriesInPath" /\ job.pc # "done"

Look ==
  /\ Creating /\ job.pc = "start"
  /\ IF job.done = Len(job.path) THEN Returns("OK")
     ELSE job' = IF PathIsDirectory(tree, Prefix(job.done + 1)) THEN [job EXCEPT !.done = @ + 1]
                 ELSE [job EXCEPT !.pc = "make"]
  /\ UNCHANGED <<tree, stack, first, events>>

MakeDirectory ==
  /\ Creating /\ job.pc = "make"
  /\ LET path == Prefix(job.done + 1)
         parent == Target(tree, Front(path))
         at == Append(parent, Last(path))
     IN  IF parent # Nowhere /\ IsDir(tree, parent) /\ at \notin DOMAIN tree
         THEN \/ /\ tree' = With(tree, at, Dir)
                 /\ job' = [job EXCEPT !.pc = "start", !.done = @ + 1] /\ UNCHANGED events
              \/ Refuse /\ Returns("DIR_CREATE") /\ UNCHANGED tree
         ELSE Returns("DIR_CREATE") /\ UNCHANGED <<tree, events>>
  /\ UNCHANGED <<stack, first>>

-----------------------------------------------------------------------------
(* PathResolveLinks: the names of the path, one by one; after each the last *)
(* place is read as a link until it is none.                               *)

Resolving == job.op = "PathResolveLinks" /\ job.pc # "done"

TakeName ==
  /\ Resolving /\ job.pc = "start"
  /\ IF job.done = Len(job.path) THEN Returns("OK")
     ELSE job' = [job EXCEPT !.pc = "read", !.done = @ + 1, !.out = Append(@, job.path[job.done + 1])]
  /\ UNCHANGED <<tree, stack, first, events>>

AfterLink == "read"

\* A link to the root has no name left to read: readlink of the root is EINVAL.
ReadLink ==
  /\ Resolving /\ job.pc = "read"
  /\ LET at == Entry(tree, job.out)
     IN  \/ at = Nowhere /\ Returns("false")
         \/ at # Nowhere /\ IsDir(tree, at) /\ job' = [job EXCEPT !.pc = "start"]
         \/ at \in DOMAIN tree /\ tree[at].type = "file" /\ job' = [job EXCEPT !.pc = "start"]
         \/ at \in DOMAIN tree /\ tree[at].type = "link" /\ job' = [job EXCEPT !.pc = AfterLink, !.out = tree[at].to]
  /\ UNCHANGED <<tree, stack, first, events>>

-----------------------------------------------------------------------------
Done == job.pc = "done" /\ UNCHANGED vars

Next ==
  \/ Other \/ EnterDirectory \/ Unlink \/ NextEntry \/ LastEntry \/ RemoveDirectory \/ CheckEmpty
  \/ Look \/ MakeDirectory \/ TakeName \/ ReadLink \/ Done

Spec == Init /\ [][Next]_vars

-----------------------------------------------------------------------------
TreeTypeOK ==
  /\ \A p \in DOMAIN tree : p \in Seq(Names) /\ IsDir(tree, Front(p)) /\ tree[p].type \in {"file", "dir", "link"}
  /\ job.done \in 0 .. Len(job.path)
  /\ \A i \in DOMAIN stack : stack[i].seen \subseteq Names

Gone == {p \in DOMAIN first : p \notin DOMAIN tree}

\* What the path names, and the links to directories that h__DeletePath finds there
Base == Entry(first, job.path)
Ways == {p \in DOMAIN first : Under(Base, p) /\ first[p].type = "link" /\ PathIsDirectory(first, p)}

\* DeletePath reports success only when nothing is left at the path, and when
\* nobody interferes and no link to a directory is below the path it succeeds on
\* whatever is there, but for the root, which cannot be removed. Then, refused or
\* not, it takes nothing that is not below the path. (A link to a directory is
\* entered, and what it leads to is deleted.)
DeleteStaysInside ==
  job.op = "DeletePath" /\ job.pc = "done" =>
    /\ job.result = "OK" /\ events.added = {} => Entry(tree, job.path) = Nowhere
    /\ Ways = {} =>
         /\ \A p \in Gone : Under(Base, p)
         /\ Quiet /\ Base \notin {Nowhere, <<>>} => job.result = "OK"

\* DeleteDirectoryIfEmpty takes nothing but the directory, and that only when it
\* is empty; a directory that fills up after it was read loses what another
\* program made. CreateDirectoriesInPath takes nothing and ends with a directory
\* at the path, or with an error.
OnlyEmptyDeleted ==
  job.pc = "done" =>
    /\ job.op = "DeleteDirectoryIfEmpty" =>
         /\ Gone \subseteq {Base}
         /\ job.result = "NOT_EMPTY" => Gone = {}
         /\ Quiet /\ job.result = "OK" => Gone # {}
    /\ job.op = "CreateDirectoriesInPath" =>
         /\ Gone = {}
         /\ job.result = "OK" => PathIsDirectory(tree, job.path)

\* When PathResolveLinks returns true, the path it gives leads to where the given
\* one leads, and ends in no link. (Its other names may still be links.)
ResolvedPathLeadsThere ==
  job.op = "PathResolveLinks" /\ job.pc = "done" /\ job.result = "OK" /\ events.added = {} =>
    /\ Target(tree, job.path) # Nowhere => Target(tree, job.out) = Target(tree, job.path)
    /\ job.out # <<>> => tree[Entry(tree, job.out)].type # "link"

=============================================================================

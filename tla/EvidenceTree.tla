----------------------------- MODULE EvidenceTree -----------------------------
(***************************************************************************)
(* A path as the walks under it see it.  Its nodes are numbered in the     *)
(* order of their paths, 0 is the path itself.  A node is a directory, a   *)
(* file or a symbolic link to a node; it has a name, a directory that it   *)
(* is in, and contents.  What a system call follows, a link leads to; a    *)
(* walk goes through directories only.                                     *)
(***************************************************************************)
LOCAL INSTANCE Integers
LOCAL INSTANCE Sequences

Root == 0

KindAt(tree, n) == IF n = Root THEN "dir" ELSE tree[n].is
Followed(tree, n) == IF KindAt(tree, n) = "link" THEN tree[n].to ELSE n
IsDir(tree, n) == KindAt(tree, Followed(tree, n)) = "dir"
IsFile(tree, n) == KindAt(tree, Followed(tree, n)) = "file"

Children(tree, dir) == {n \in DOMAIN tree : tree[n].in = dir}
Called(tree, dir, name) ==
    {n \in Children(tree, Followed(tree, dir)) : tree[n].name = name}
HasFile(tree, dir, name) == \E n \in Called(tree, dir, name) : IsFile(tree, n)

Above(tree, n) ==      \* the directories a node is in, and itself
    LET above[k \in {Root} \cup DOMAIN tree] ==
            IF k = Root THEN {Root} ELSE {k} \cup above[tree[k].in]
    IN  above[n]
DepthOf(tree, n) ==
    LET depth[k \in {Root} \cup DOMAIN tree] == IF k = Root THEN 0 ELSE depth[tree[k].in] + 1
    IN  depth[n]

Reads(tree, dir) == dir = Root \/ tree[dir].reads

\* The directories that a walk reads which goes no deeper than max.
Walked(tree, max) ==
    {d \in {Root} \cup DOMAIN tree :
        /\ DepthOf(tree, d) <= max
        /\ \A up \in Above(tree, d) : KindAt(tree, up) = "dir" /\ Reads(tree, up)}
FilesWithin(tree, max) ==
    {n \in DOMAIN tree : tree[n].is = "file" /\ tree[n].in \in Walked(tree, max)}

FirstOf(S) == CHOOSE n \in S : \A m \in S : n <= m

=============================================================================

------------------------------- MODULE Layers -------------------------------
(***************************************************************************)
(* crates/snapshots/src/diff.rs: one layer's tar applied to a directory,   *)
(* and RuntimeSvc::unpack_rootfs, which applies an image's layers, base    *)
(* first, to the root filesystem of a new container.                       *)
(*                                                                         *)
(* A file system is a function from paths (sequences of names) to nodes    *)
(* [kind, data, owner]; the root directory is left out.  A tar entry is    *)
(* [dir, name, mark, kind, data]: mark is "wh" for a file ".wh.<name>",    *)
(* "opq" for ".wh..wh..opq", "no" otherwise.                               *)
(*                                                                         *)
(* Symbolic links are leaves whose data is their target.  The code follows *)
(* one that an entry's path goes through and, in is_dir() and the tar      *)
(* library's directories, one at its end; this is left out, and the images *)
(* are those in which it does not happen (LinksApart).  A hard link reads  *)
(* as a file with the data of its target; that the target is missing, or   *)
(* the path taken, which ends the extraction with an error, is left out.   *)
(***************************************************************************)
EXTENDS Integers, Collections

CONSTANT Failed   \* an extraction that returned an error

EmptyTree == <<>>

IsDir(tree, p) == p = <<>> \/ (p \in DOMAIN tree /\ tree[p].kind = "dir")

(* the path and everything below it *)
Subtree(tree, p) == {q \in DOMAIN tree : IsPrefix(p, q)}

Hide(tree, paths) == [q \in DOMAIN tree \ paths |-> tree[q]]

(* Wrong: the prefix of a whiteout is tested first, so the opaque marker   *)
(* hides a file ".wh..opq" that nobody has.                                *)
PrefixFirst(e) ==
  CASE e.mark = "opq" -> [kind |-> "Remove", path |-> Append(e.dir, ".wh..opq")]
    [] e.mark = "wh"  -> [kind |-> "Remove", path |-> Append(e.dir, e.name)]
    [] OTHER          -> [kind |-> "None",   path |-> Append(e.dir, e.name)]

(* The opaque marker also starts with the whiteout prefix: it is looked    *)
(* for first.                                                              *)
classify(e) ==
  CASE e.mark = "opq" -> [kind |-> "Opaque", path |-> e.dir]
    [] e.mark = "wh"  -> [kind |-> "Remove", path |-> Append(e.dir, e.name)]
    [] OTHER          -> [kind |-> "None",   path |-> Append(e.dir, e.name)]

safe_join(rel) == \A i \in DOMAIN rel : rel[i] # ".."

remove_path(tree, p) == Hide(tree, Subtree(tree, p))

-----------------------------------------------------------------------------
(* The tar library's unpack_in: missing parents are created, a directory   *)
(* that exists is kept, a file or a link is replaced; one where a          *)
(* directory is needed, or the reverse, is an error.  An entry that leaves *)
(* the target is skipped.                                                  *)
Parents(p) == {SubSeq(p, 1, n) : n \in 1 .. Len(p) - 1}

DirNode == [kind |-> "dir", data |-> 0, owner |-> 0]
EntryNode(e) == IF e.kind = "dir" THEN DirNode
                ELSE [kind |-> e.kind, data |-> e.data, owner |-> 0]

unpack_in(tree, p, e) ==
  IF ~ safe_join(p) THEN tree
  ELSE IF \/ \E q \in Parents(p) : q \in DOMAIN tree /\ ~ IsDir(tree, q)
          \/ p \in DOMAIN tree /\ (IsDir(tree, p) # (e.kind = "dir"))
  THEN Failed
  ELSE Extend(Extend([q \in Parents(p) |-> DirNode], tree), [q \in {p} |-> EntryNode(e)])

-----------------------------------------------------------------------------
(* one turn of apply_layer's loop *)
apply_entry(tree, e) ==
  LET c == classify(e) IN
  CASE c.kind = "None"   -> unpack_in(tree, c.path, e)
    [] c.kind = "Remove" -> IF safe_join(c.path) THEN remove_path(tree, c.path) ELSE tree
    [] c.kind = "Opaque" -> IF safe_join(c.path) /\ IsDir(tree, c.path)
                            THEN Hide(tree, Subtree(tree, c.path) \ {c.path})
                            ELSE tree

(* the first error ends the loop *)
apply_layer(tree, layer) ==
  LET after[i \in 0 .. Len(layer)] ==
        IF i = 0 THEN tree
        ELSE IF after[i - 1] = Failed THEN Failed ELSE apply_entry(after[i - 1], layer[i])
  IN after[Len(layer)]

unpack_rootfs(layers) ==
  LET after[i \in 0 .. Len(layers)] ==
        IF i = 0 THEN EmptyTree
        ELSE IF after[i - 1] = Failed THEN Failed ELSE apply_layer(after[i - 1], layers[i])
  IN after[Len(layers)]

(* chown_tree walks the whole tree, the root included (not kept here). *)
chown_tree(tree, uid) == [p \in DOMAIN tree |-> [tree[p] EXCEPT !.owner = uid]]

-----------------------------------------------------------------------------
(* The image specification's change set: what a layer hides of the layers  *)
(* below it, then what it contains.  A path that leaves the root does      *)
(* neither.                                                                *)
FullPath(e) == Append(e.dir, e.name)

Contents(layer) == {i \in DOMAIN layer : layer[i].mark = "no" /\ safe_join(FullPath(layer[i]))}

Hides(e, q) ==
  \/ e.mark = "wh"  /\ safe_join(FullPath(e)) /\ IsPrefix(FullPath(e), q)
  \/ e.mark = "opq" /\ safe_join(e.dir) /\ IsStrictPrefix(e.dir, q)

Hidden(layer, q) == \E i \in DOMAIN layer : Hides(layer[i], q)

LayerPaths(layer) ==
  UNION {{FullPath(layer[i])} \cup Parents(FullPath(layer[i])) : i \in Contents(layer)}

(* the node a layer itself gives a path: its last entry for it *)
LayerNode(layer, p) ==
  LET mine == {i \in Contents(layer) : FullPath(layer[i]) = p}
      last == CHOOSE i \in mine : \A j \in mine : j <= i
  IN IF mine = {} THEN DirNode ELSE EntryNode(layer[last])

Overlay(tree, layer) ==
  LET below == {q \in DOMAIN tree : ~ Hidden(layer, q)}
  IN [p \in below \cup LayerPaths(layer) |->
        IF p \in LayerPaths(layer) THEN LayerNode(layer, p) ELSE tree[p]]

(* the trees of an image's layers, one over the other *)
Stacked(layers) ==
  LET below[i \in 0 .. Len(layers)] ==
        IF i = 0 THEN EmptyTree ELSE Overlay(below[i - 1], layers[i])
  IN below[Len(layers)]

(* The images in which no symbolic link is followed: no path, of an entry  *)
(* or of a marker, goes through that of a link, no opaque marker is for it *)
(* and no directory entry has the same path.                               *)
LinksApart(layers) ==
  \A i, j \in DOMAIN layers : \A k \in DOMAIN layers[i], l \in DOMAIN layers[j] :
    LET e == layers[i][k]
        f == layers[j][l]
    IN e.mark = "no" /\ e.kind = "link" =>
         /\ ~ IsStrictPrefix(FullPath(e), FullPath(f))
         /\ f.mark = "no" /\ f.kind = "dir" => FullPath(f) # FullPath(e)

(* The entry order for which apply_layer and the change set agree: a       *)
(* marker read after files of its own layer deletes those files too.       *)
MarksFirst(layer) ==
  \A i, j \in DOMAIN layer : layer[i].mark # "no" /\ layer[j].mark = "no" => i < j
=============================================================================

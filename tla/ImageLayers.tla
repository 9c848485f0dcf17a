---------------------------- MODULE ImageLayers ----------------------------
(***************************************************************************)
(* The view of an image that its layers merge into (os/src/image.rs).       *)
(*                                                                         *)
(* A path is the sequence of its components; a layer is the sequence of its *)
(* archive's entries; the view, `entries` there, holds for a path the layer *)
(* that wrote it and what it is.  The view is kept in the order of its      *)
(* paths' text, in which "a-b" lies between "a" and "a/x".                  *)
(***************************************************************************)
EXTENDS Cases, Integers, SequencesExt

CONSTANT TextOrder   \* the paths in the order of their text

\* Each path is there once, and after the directory it is in.
ASSUME TextOrderAssumption ==
    /\ TextOrder \in Seq(Seq(STRING) \ {<<>>})
    /\ \A i, j \in DOMAIN TextOrder : TextOrder[i] = TextOrder[j] => i = j
    /\ \A j \in DOMAIN TextOrder :
         Len(TextOrder[j]) > 1 => \E i \in 1..(j - 1) : TextOrder[i] = Front(TextOrder[j])

Place(path) == CHOOSE i \in DOMAIN TextOrder : TextOrder[i] = path
Within(path, dir) == IsPrefix(dir, path)
Without(fs, doomed) == [path \in DOMAIN fs \ doomed |-> fs[path]]

\* The paths that remove_tree walks over: from the path on, until one is outside it.
Walked(fs, path) ==
    {k \in DOMAIN fs : /\ Place(path) <= Place(k)
                       /\ \A j \in DOMAIN fs : Place(j) \in Place(path)..Place(k) => Within(j, path)}
\* A mutant: the removal spares no layer.
RemoveTreeOfAll(fs, path, below) == Without(fs, Walked(fs, path))
RemoveTree(fs, path, below) == Without(fs, {k \in Walked(fs, path) : fs[k].layer < below})
RemoveChildren(fs, dir, below) ==
    Without(fs, {k \in DOMAIN fs : Within(k, dir) /\ k # dir /\ fs[k].layer < below})

Put(fs, path, layer, kind) ==
    [p \in DOMAIN fs \cup {path} |-> IF p = path THEN [layer |-> layer, kind |-> kind] ELSE fs[p]]
Apply(fs, layer, entry) ==
    CASE entry.kind = "opaque" -> RemoveChildren(fs, entry.path, layer)
      [] entry.kind = "whiteout" -> RemoveTree(fs, entry.path, layer)
      [] OTHER ->
           LET replaces == entry.kind # "dir" /\ entry.path \in DOMAIN fs /\ fs[entry.path].kind = "dir"
           IN  Put(IF replaces THEN RemoveTree(fs, entry.path, layer + 1) ELSE fs,
                   entry.path, layer, entry.kind)

\* Every layer from the bottom, and in it every entry in the archive's order.
ApplyLayer(fs, layer, entries) == FoldLeft(LAMBDA f, e : Apply(f, layer, e), fs, entries)
View(layers) ==
    FoldLeftDomain(LAMBDA fs, i : ApplyLayer(fs, i, layers[i]), [p \in {} |-> {}], layers)

\* The layer whose binary was noted at each path: the last one that had a binary there.
Noted(layers) ==
    {at \in Range(TextOrder) \X DOMAIN layers :
        \E e \in Range(layers[at[2]]) :
            /\ e.path = at[1] /\ e.kind = "binary"
            /\ \A j \in DOMAIN layers : j > at[2] =>
                 ~\E f \in Range(layers[j]) : f.path = at[1] /\ f.kind = "binary"}
Binaries(layers) ==
    LET fs == View(layers)
    IN  {p \in DOMAIN fs : <<p, fs[p].layer>> \in Noted(layers)}

(***************************************************************************)
(* What an overlay of the layers shows: the topmost layer that has a path   *)
(* and that no layer above hides it from.                                   *)
(***************************************************************************)
Holds(layer, path) == \E e \in Range(layer) : e.path = path /\ e.kind \notin {"opaque", "whiteout"}
Hides(layer, path) ==
    \E e \in Range(layer) :
        /\ Within(path, e.path)
        /\ \/ e.kind = "whiteout"
           \/ e.kind \in {"opaque", "file", "binary"} /\ path # e.path
Shown(layers, path) ==
    {i \in DOMAIN layers :
        /\ Holds(layers[i], path)
        /\ \A j \in DOMAIN layers : j > i => ~Holds(layers[j], path) /\ ~Hides(layers[j], path)}

\* Archives that a layer can be: a path once, and nothing inside a file of the layer.
WellFormedLayer(layer) ==
    /\ \A i, j \in DOMAIN layer :
         i # j /\ layer[i].path = layer[j].path => {layer[i].kind, layer[j].kind} \cap {"whiteout", "opaque"} # {}
    /\ \A path \in Range(TextOrder) :
         Holds(layer, path) =>
           ~\E e \in Range(layer) : e.kind \in {"file", "binary"} /\ e.path # path /\ Within(path, e.path)

\* No sibling sorts between a directory and what is inside, and every directory has an entry.
Plain(layers) ==
    \A i \in DOMAIN layers : \A e \in Range(layers[i]) :
        /\ \A path \in Range(TextOrder) :
             Within(e.path, path) /\ e.path # path => Holds(layers[i], path)
        /\ Len(e.path) > 1 =>
             \A path \in Range(TextOrder), j \in DOMAIN layers :
               Holds(layers[j], path) =>
                 ~(Place(path) \in Place(Front(e.path))..Place(e.path) /\ ~Within(path, Front(e.path)))

(***************************************************************************)
(* The view of an image has every file that the overlay of its layers shows,*)
(* from the layer it comes from and as a binary when it is one; and it has  *)
(* no other when no sibling sorts between a directory and its files: a      *)
(* whiteout must spare its own layer, whatever the order of the archive,    *)
(* and a binary must go with the file that replaces it.                     *)
(***************************************************************************)
LayersAreOverlay ==
    case.of = "image" =>
      LET fs == View(case.layers)
      IN  /\ \A path \in Range(TextOrder), i \in DOMAIN case.layers :
               i \in Shown(case.layers, path) => path \in DOMAIN fs /\ fs[path].layer = i
          /\ Plain(case.layers) => \A path \in DOMAIN fs : fs[path].layer \in Shown(case.layers, path)
          /\ \A path \in Binaries(case.layers) :
               \E e \in Range(case.layers[fs[path].layer]) : e = [path |-> path, kind |-> "binary"]

(***************************************************************************)
(* image.rs:226: "Remove `path` and everything under it that came from a    *)
(* layer below `layer`": nothing of a tree that a layer whites out is seen  *)
(* from the layers below it.                                                *)
(***************************************************************************)
WhiteoutsTakeTheTree ==
    case.of = "image" =>
      LET fs == View(case.layers)
      IN  \A path \in DOMAIN fs, j \in DOMAIN case.layers :
            j > fs[path].layer =>
              ~\E e \in Range(case.layers[j]) : e.kind = "whiteout" /\ Within(path, e.path)
=============================================================================

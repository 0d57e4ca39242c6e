---------------------------- MODULE StemHierarchy ----------------------------
(***************************************************************************)
(* The .stem files of a tree: which of them govern a directory (WalkUp),   *)
(* the snapshot taken of them before something is written                  *)
(* (DiscoverStemState), the same snapshot with a proposed file in place    *)
(* (Overlay), and the errors that snapshot shows (EvaluateStemState).      *)
(*                                                                         *)
(* A directory is the sequence of the names that lead to it from the top   *)
(* of the project.  Dirs holds those that DiscoverStemState walks: neither *)
(* .git nor node_modules.                                                  *)
(***************************************************************************)
EXTENDS StemRules, FiniteSetsExt

CONSTANT Dirs

ASSUME StemHierarchyAssumption ==
    /\ <<>> \in Dirs
    /\ \A d \in Dirs : d \in Seq(ToSet(d)) /\ (d # <<>> => Front(d) \in Dirs)

Up(dir, n)       == SubSeq(dir, 1, n)
Under(dir, root) == IsPrefix(root, dir)

(***************************************************************************)
(* Reading the tree.  Parsed: what each .stem parses to.  The walk from a  *)
(* directory upwards ends at the first .stem that declares root: true.     *)
(***************************************************************************)
Parsed(files) == [d \in Dirs |-> Load(files[d])]

Marker(stems, dir)   == stems[dir] \notin {None, Bad} /\ stems[dir].root
Boundary(stems, dir) == Max({0} \cup {n \in 0..Len(dir) : Marker(stems, Up(dir, n))})

\* The directories the walk visits, from the boundary down to dir.
Walked(stems, dir) ==
    [i \in 1..(Len(dir) - Boundary(stems, dir) + 1) |-> Up(dir, Boundary(stems, dir) + i - 1)]

\* What the walk finds, level by level.  The chain is what parses of it.
Chain(stems, dir) == [i \in DOMAIN Walked(stems, dir) |-> stems[Walked(stems, dir)[i]]]

\* WalkUp fails on a malformed .stem of the walk; "none" is ErrNoSchemaFound.
WalkUp(stems, dir) ==
    LET found == {stems[d] : d \in ToSet(Walked(stems, dir))}
    IN  IF Bad \in found THEN "malformed" ELSE IF found \subseteq {None} THEN "none" ELSE "ok"

\* The end of the chain: the directory of the walk's lowest .stem.
ClosestStem(stems, dir) ==
    CHOOSE d \in ToSet(Walked(stems, dir)) :
        /\ stems[d] # None
        /\ \A e \in ToSet(Walked(stems, dir)) : stems[e] # None => Len(e) <= Len(d)

\* The rules that govern a directory, and those that come from above it.
RulesAt(stems, dir, level) == MergeStemFiles(Chain(stems, dir))[level]
Effective(stems, dir)    == RulesAt(stems, dir, Len(Chain(stems, dir)))
Inherited(stems, dir)    == RulesAt(stems, dir, Len(Chain(stems, dir)) - 1)

(***************************************************************************)
(* StemState.  Ancestors of the root are read as context up to the first   *)
(* marker above the root; they are judged only when an overlay puts them   *)
(* in `evaluated`.                                                         *)
(***************************************************************************)
External(stems, root) ==
    IF root = <<>> THEN {}
    ELSE {Up(root, n) : n \in Boundary(stems, Front(root))..(Len(root) - 1)}

DiscoverStemState(files, root) ==
    LET stems == Parsed(files)
    IN  [root      |-> root,
         stems     |-> [d \in Dirs |-> IF Under(d, root) \/ d \in External(stems, root)
                                       THEN stems[d] ELSE None],
         evaluated |-> {}]

\* The proposed file replaces what was found; it is judged, and so is every
\* malformed file of its chain.
Overlay(state, dir, file) ==
    LET stems == [state.stems EXCEPT ![dir] = ParseStem(file)]
    IN  [state EXCEPT !.stems = stems,
                      !.evaluated = @ \cup {dir}
                                      \cup {d \in ToSet(Walked(stems, dir)) : stems[d] = Bad}]

EvaluatedStems(state) ==
    {d \in Dirs : state.stems[d] # None /\ (Under(d, state.root) \/ d \in state.evaluated)}

(***************************************************************************)
(* EvaluateStemState: the checks of error severity on one .stem (yaml and  *)
(* schema validity, field declarations, type consistency, monotonic        *)
(* violations).  A field is compared with what the ancestors' merge says   *)
(* of it, unless its own declaration is invalid.                           *)
(***************************************************************************)
InvalidFields(stem) == {f \in DOMAIN stem.schema : ~ValidDeclaration(stem.schema[f])}

Loosens(parent, stem) ==
    \/ \E f \in (DOMAIN stem.schema \cap DOMAIN parent.schema) \ InvalidFields(stem) :
          Incompatible(parent.schema[f], stem.schema[f])
    \/ StructureLoosened(parent.structural, stem.structural)

StemErrors(state, dir) ==
    LET stem == state.stems[dir]
    IN  \/ stem = Bad
        \/ InvalidFields(stem) # {}
        \/ Loosens(Inherited(state.stems, dir), stem)

BlockingStemHealth(state) == {d \in EvaluatedStems(state) : StemErrors(state, d)}

(***************************************************************************)
(* What narrowing is for: what a level rejects, the levels below it reject *)
(* too, if every .stem in between is judged and only narrows.  The gate    *)
(* compares types, values, required, source and severity; the rest of what *)
(* a declaration may say is not compared, and is named here as a condition.*)
(***************************************************************************)
Plain(d) ==
    /\ d.match = None /\ d.requiredMatch = None /\ d.excludes = None
    /\ d.severity \in {"error", "off"}
    /\ d.values # {} <=> d.type = "enum"

RuleFields(rule) == {rule.field} \cup (IF rule.when = None THEN {} ELSE {rule.when[1]})

OnlyNarrows(above, below) ==
    /\ \A stem \in {above, below}, f \in Fields : f \in DOMAIN stem.schema => Plain(stem.schema[f])
    /\ \A rule \in above.validate : RuleFields(rule) \subseteq DOMAIN above.schema
    /\ below.aggregate \subseteq above.aggregate
    /\ above.allowed # {} => below.allowed \subseteq above.allowed
    /\ above.structural.min > 0 => below.structural.min > 0
    /\ above.structural.max > 0 => below.structural.max > 0
    /\ above.structural.index => below.structural.index

\* Below a level of the walk to dir, every .stem is judged and only narrows.
NarrowsBelow(stems, dir, level, judged) ==
    \A n \in (level + 1)..Len(Chain(stems, dir)) :
       Chain(stems, dir)[n] \notin {None, Bad} =>
          /\ Walked(stems, dir)[n] \in judged
          /\ OnlyNarrows(RulesAt(stems, dir, n - 1), RulesAt(stems, dir, n))

KeepsGuarantees(stems, dir, judged, records, counts) ==
    \A level \in 1..Len(Chain(stems, dir)) :
       LET above == RulesAt(stems, dir, level)
           below == Effective(stems, dir)
       IN  NarrowsBelow(stems, dir, level, judged) =>
              /\ \A r \in records : Rejected(above, r) => Rejected(below, r)
              /\ \A c, i \in counts : StructureFails(above.structural, c, i)
                                         => StructureFails(below.structural, c, i)
=============================================================================

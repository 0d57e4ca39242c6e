---------------------------- MODULE SkillEvidence ----------------------------
(***************************************************************************)
(* What `rootline skill` observes of a file-system entry, and the plans it *)
(* builds from the observations: internal/skilldist/inventory.go, plan.go  *)
(* and the evidence comparisons of service.go.  Every operator is pure: it *)
(* takes the entries at the managed destinations (dest) and the trees of   *)
(* the other directories (tree) as arguments.                              *)
(*                                                                         *)
(* A directory's content is one member of Trees, and its digest is that    *)
(* member: SHA-256 is taken to be injective.  Paths are the two            *)
(* destinations, the skill source and the members of Elsewhere.            *)
(***************************************************************************)
EXTENDS Naturals, Sequences, FiniteSets

CONSTANTS
    Trees,      \* contents a directory can have
    Elsewhere,  \* directories a user's own symlink may point to
    None        \* "empty string" in evidence, "no entry" in the store

Dest    == {"claude", "agents"}
Src     == "source"
Damaged == "damaged"            \* what a half-finished RemoveAll leaves
Paths   == Dest \cup {Src} \cup Elsewhere

ASSUME EvidenceAssumption ==
    /\ None \notin Trees \cup Paths
    /\ Damaged \notin Trees \cup {None}
    /\ Elsewhere \cap (Dest \cup {Src}) = {}

(***************************************************************************)
(* Entries: what Lstat finds at a path.                                    *)
(***************************************************************************)
Absent  == [type |-> "absent",    tree |-> None, target |-> None]
File    == [type |-> "file",      tree |-> None, target |-> None]
Dir(t)  == [type |-> "directory", tree |-> t,    target |-> None]
Link(p) == [type |-> "symlink",   tree |-> None, target |-> p]

Directories == {Dir(t) : t \in Trees \cup {Damaged}}
Links       == {Link(p) : p \in Paths}
Entries     == {Absent, File} \cup Directories \cup Links

(***************************************************************************)
(* Evidence: a DestinationState.  ID and Path are the destination itself.  *)
(***************************************************************************)
Kinds == {"absent", "directory", "correct_symlink", "divergent_symlink", "unsupported"}

Evidence == [kind : Kinds, lexical : Paths \cup {None},
             canonical : Paths \cup {None}, digest : Trees \cup {Damaged, None}]

IsLink(ev) == ev.kind \in {"correct_symlink", "divergent_symlink"}

\* EvalSymlinks: follow links from p.  Two managed destinations allow two
\* hops; a path that is a link after the third is on a cycle.
Hop(dest, p) == IF p \in Dest /\ dest[p].type = "symlink" THEN dest[p].target ELSE p

Canonical(dest, tree, p) ==
    LET q == Hop(dest, Hop(dest, Hop(dest, p)))
    IN  CASE q \in Dest -> IF dest[q].type \in {"directory", "file"} THEN q ELSE None
          [] q \in {Src} \cup Elsewhere -> IF tree[q] # None THEN q ELSE None
          [] OTHER -> None

\* DigestTree of a canonical path; None when there is no tree to digest.
DigestAt(dest, tree, p) ==
    CASE p \in Dest -> dest[p].tree
      [] p \in {Src} \cup Elsewhere -> tree[p]
      [] OTHER -> None

\* inventoryDestination: the evidence of entry e, against a source digest.
Inventory(dest, tree, source, e) ==
    LET canon  == IF e.type = "symlink" THEN Canonical(dest, tree, e.target) ELSE None
        digest == IF e.type = "symlink" THEN DigestAt(dest, tree, canon) ELSE e.tree
        exact  == e.target = Src /\ canon = Src /\ digest = source
    IN  [kind |-> CASE e.type = "absent"    -> "absent"
                    [] e.type = "directory" -> "directory"
                    [] e.type = "symlink"   -> IF exact THEN "correct_symlink"
                                                        ELSE "divergent_symlink"
                    [] OTHER                -> "unsupported",
         lexical |-> e.target, canonical |-> canon, digest |-> digest]

\* InventoryDestinations: both destinations.
InventoryAll(dest, tree, source) ==
    [d \in Dest |-> Inventory(dest, tree, source, dest[d])]

(***************************************************************************)
(* Comparisons.                                                            *)
(***************************************************************************)

\* Mutation: compare a staged symlink by its whole evidence, digest included,
\* as before ADR 0008.
SameWholeEvidence(expected, observed, copy) == expected = observed

\* sameStagedPreimageEvidence: a symlink by kind and exact target (ADR 0008),
\* a directory by its whole evidence.  copy is the stored backup entry.
SameStagedEvidence(expected, observed, copy) ==
    IF IsLink(expected)
    THEN /\ expected.kind = observed.kind
         /\ copy = Link(expected.lexical)
         /\ expected.lexical = observed.lexical
    ELSE expected = observed

\* Mutation: any symlink passes for a symlink preimage.
RestoredKindOnly(dest, tree, d, pre) ==
    IF pre.kind = "directory" THEN dest[d] = Dir(pre.digest) ELSE dest[d].type = "symlink"

\* verifyRestoredPreimage: does the entry at destination d carry preimage pre?
Restored(dest, tree, d, pre) ==
    LET e     == dest[d]
        canon == Canonical(dest, tree, e.target)
        dig   == DigestAt(dest, tree, canon)
    IN  CASE pre.kind = "directory" -> e = Dir(pre.digest)
          [] IsLink(pre) ->
                /\ e = Link(pre.lexical)
                /\ canon # None =>
                     /\ pre.canonical # None => canon = pre.canonical
                     /\ (dig # None /\ pre.digest # None) => dig = pre.digest
          [] OTHER -> FALSE

\* The DestinationState verifyRestoredPreimage returns when it succeeds: the
\* preimage's kind with what was observed.
RestoredEvidence(dest, tree, d, pre) ==
    [Inventory(dest, tree, pre.digest, dest[d]) EXCEPT !.kind = pre.kind]

\* currentRestorableStateMatches: the managed link the receipt recorded, or
\* nothing where that link used to be.
Restorable(recorded, current) ==
    /\ IsLink(recorded)
    /\ \/ current.kind = "absent"
       \/ /\ IsLink(current)
          /\ current.lexical = recorded.lexical
          /\ current.canonical = recorded.canonical

(***************************************************************************)
(* Action kinds.                                                           *)
(***************************************************************************)
ActionKinds == {"create_symlink", "replace_with_symlink", "remove_managed_symlink",
                "restore_preimage", "no_op"}

InstallKind(ev) ==
    CASE ev.kind = "absent"          -> "create_symlink"
      [] ev.kind = "correct_symlink" -> "no_op"
      [] OTHER                       -> "replace_with_symlink"

\* Mutation: an absent preimage is forgotten to mean removal.
RestoreNothing(recordedKind, before, current) ==
    IF recordedKind = "no_op" /\ before = current THEN "no_op" ELSE "restore_preimage"

\* restoreActionKind, and BuildRestorePlan's no_op.
RestoreKind(recordedKind, before, current) ==
    IF recordedKind = "no_op" /\ before = current THEN "no_op"
    ELSE IF before.kind = "absent" THEN "remove_managed_symlink"
    ELSE "restore_preimage"
=============================================================================

----------------------------- MODULE RecordScan -----------------------------
(***************************************************************************)
(* index.Scan (internal/index): the governed documents below a directory,  *)
(* which every command that looks at a tree starts from.                   *)
(*                                                                         *)
(* One goroutine walks the tree and lists the documents; a pool of workers *)
(* takes them from a channel, reads and extracts them; the results are     *)
(* collected in the order of the walk.  Meanwhile the context may be       *)
(* cancelled, a document deleted, a .stem edited.  scanGoverned            *)
(* (cmd/rootline/scope.go) scans once more, ungoverned, when no directory  *)
(* had a schema.                                                           *)
(*                                                                         *)
(* A path is the sequence of its names from the file system's root.        *)
(***************************************************************************)
EXTENDS Naturals, Sequences, FiniteSets, SequencesExt

CONSTANTS
    Root,       \* the directory a command is pointed at
    Walk,       \* the entries from Root down, in filepath.WalkDir's order
    Dirs,       \* the directories among them
    Outer,      \* the directories above Root
    Known,      \* the files an extractor is registered for
    Trees,      \* what the files may hold, see TreeTypes
    Workers,    \* the CPUs
    None,
    MaxMishaps  \* bound: deletions, edits and cancellations

Entries == Range(Walk)
Files   == Entries \ Dirs
Places  == Dirs \cup Outer

\* What list has of S, in its order.
Kept(list, S) ==
    LET kept[i \in 0..Len(list)] ==
            IF i = 0 THEN <<>> ELSE IF list[i] \in S THEN Append(kept[i-1], list[i]) ELSE kept[i-1]
    IN  kept[Len(list)]

\* A .stem is absent, an ordinary one, one that declares root: true, or one
\* that cannot be read or does not parse.
StemStates == {"none", "plain", "root", "broken"}

\* ignores[d]: the files a pattern of d's .stemignore matches; outOfScope: the
\* files whose name scope.match of their chain does not match; bad: those that
\* cannot be read or extracted; absent: those that do not exist; stems: the
\* .stem files.
TreeTypes(t) ==
    /\ t.ignores \in [Places -> SUBSET Files]
    /\ t.outOfScope \subseteq Files /\ t.bad \subseteq Files /\ t.absent \subseteq Files
    /\ t.stems \in [Places -> StemStates]

\* Paths are sequences of names; the walk goes through what is at or below Root,
\* each once and a directory before what is in it, and the directories above
\* Root are those whose path Root's goes on from.
ASSUME ScanAssumption ==
    /\ Walk \in Seq(Entries) /\ Root \in Dirs /\ Workers # {} /\ IsFiniteSet(Workers) /\ MaxMishaps \in Nat
    /\ Dirs \subseteq Entries /\ Entries \cup Outer \subseteq Seq(UNION {Range(e) : e \in Entries \cup Outer})
    /\ (\A e \in Entries : IsPrefix(Root, e)) /\ \A o \in Outer : IsStrictPrefix(o, Root)
    /\ \A i, j \in DOMAIN Walk : Walk[i] = Walk[j] => i = j
    /\ \A i \in DOMAIN Walk : Walk[i] = Root \/ \E j \in 1..(i-1) : Walk[j] = Front(Walk[i]) /\ Walk[j] \in Dirs
    /\ Known \subseteq Files
    /\ None \notin Files \cup Dirs /\ None \notin Nat /\ None \notin {"none", "broken", "governed"}
    /\ \A t \in Trees : TreeTypes(t)

VARIABLES
    tree,       \* what the files hold
    stems,      \* stems[d]: the .stem of d
    gone,       \* the files that do not exist
    cancelled,  \* the context
    scan,       \* the scan in progress
    hold,       \* hold[w]: the index w works on, 0 when it has none
    seen,       \* history: the values stems had during the scan
    mishaps

scanVars == <<tree, stems, gone, cancelled, scan, hold, seen, mishaps>>

(***************************************************************************)
(* Scope.                                                                  *)
(***************************************************************************)
Dir(p) == Front(p)

\* WalkUp: the .stem files from d upwards, to the first that declares root:
\* true; one that cannot be read ends the walk with an error.
Chain(s, d) ==
    LET up == {e \in Places : IsPrefix(e, d) /\ s[e] # "none"}
    IN  {e \in up : \A below \in up : Len(below) > Len(e) => s[below] = "plain"}

Resolve(s, d) ==
    IF Chain(s, d) = {} THEN "none"
    ELSE IF \E e \in Chain(s, d) : s[e] = "broken" THEN "broken" ELSE "governed"

\* isIgnored: a .stemignore in a directory above f, from where the walk began.
Ignored(f) == \E d \in Dirs : IsStrictPrefix(d, f) /\ f \in tree.ignores[d]

\* MatchesScope; the resilient resolver answers an empty .stem, which matches
\* every file, for a chain that is broken.
InScope(f, outcome) == outcome = "governed" => f \notin tree.outOfScope

(***************************************************************************)
(* Phase 1: the walk.                                                      *)
(***************************************************************************)
Phases == {"walk", "extract", "done"}
Running == [kind |-> "running", records |-> <<>>, why |-> None]

Start(resilient, ungoverned) ==
    [phase |-> "walk", resilient |-> resilient, ungoverned |-> ungoverned, at |-> 1,
     listed |-> {Root}, files |-> <<>>, hit |-> FALSE, cache |-> [d \in Dirs |-> None],
     sent |-> 0, taken |-> 0, results |-> <<>>, out |-> Running]

ScanInit(t) ==
    /\ tree = t /\ stems = tree.stems
    /\ gone = tree.absent
    /\ cancelled = FALSE
    /\ scan = [Start(FALSE, FALSE) EXCEPT !.phase = "done"]
    /\ hold = [w \in Workers |-> 0]
    /\ seen = {stems} /\ mishaps = 0

\* The context, the documents and the .stem files are as they were.
BeginScan(resilient, ungoverned) ==
    /\ scan' = Start(resilient, ungoverned)
    /\ hold' = [w \in Workers |-> 0]
    /\ seen' = {stems}
    /\ UNCHANGED <<tree, stems, gone, cancelled, mishaps>>

Steady == UNCHANGED <<tree, stems, gone, cancelled, seen, mishaps>>
Finish(kind, why) == scan' = [scan EXCEPT !.phase = "done",
                                          !.out = [kind |-> kind, records |-> <<>>, why |-> why]]

Entry   == Walk[scan.at]
Walking == scan.phase = "walk" /\ scan.at <= Len(Walk)
Onward  == [scan EXCEPT !.at = @ + 1]

\* A directory: the context is looked at here, the entries are listed.  Its
\* own .stem comes first among its files, so the resolver is asked for it now.
WalkDir ==
    /\ Walking /\ Entry \in Dirs
    /\ LET own == IF stems[Entry] = "none" THEN None ELSE Resolve(stems, Entry) IN
       IF cancelled THEN Finish("error", "cancelled")
       ELSE IF own = "broken" /\ ~scan.resilient THEN Finish("error", Entry)
       ELSE scan' = [Onward EXCEPT !.listed = @ \cup {e \in Entries \ gone : e # Root /\ Dir(e) = Entry},
                                   !.cache[Entry] = own]
    /\ UNCHANGED hold /\ Steady

\* The resolver is asked once per directory.
Outcome == IF scan.cache[Dir(Entry)] # None THEN scan.cache[Dir(Entry)] ELSE Resolve(stems, Dir(Entry))

Taken(f, outcome) ==
    /\ outcome = "none" => scan.ungoverned
    /\ InScope(f, outcome) /\ f \in Known

WalkFile ==
    /\ Walking /\ Entry \in Files
    /\ IF Entry \notin scan.listed \/ Ignored(Entry) THEN scan' = Onward
       ELSE IF Outcome = "broken" /\ ~scan.resilient THEN Finish("error", Dir(Entry))
       ELSE scan' = [Onward EXCEPT !.cache[Dir(Entry)] = Outcome,
                                   !.hit = @ \/ Outcome = "none",
                                   !.files = IF Taken(Entry, Outcome) THEN Append(@, Entry) ELSE @]
    /\ UNCHANGED hold /\ Steady

(***************************************************************************)
(* Phase 2: the pool.  Surplus workers are never started (hold is None).   *)
(***************************************************************************)
Spawned == CHOOSE some \in SUBSET Workers :
              Cardinality(some) = IF Len(scan.files) < Cardinality(Workers)
                                  THEN Len(scan.files) ELSE Cardinality(Workers)

EndWalk ==
    /\ scan.phase = "walk" /\ scan.at > Len(Walk)
    /\ IF scan.files = <<>>
       THEN /\ Finish(IF scan.hit /\ ~scan.ungoverned THEN "noschema" ELSE "records", None)
            /\ UNCHANGED hold
       ELSE /\ scan' = [scan EXCEPT !.phase = "extract",
                                    !.results = [i \in DOMAIN scan.files |-> None]]
            /\ hold' = [w \in Workers |-> IF w \in Spawned THEN 0 ELSE None]
    /\ Steady

\* The channel holds every index, so sending never blocks.
Send ==
    /\ scan.phase = "extract" /\ scan.sent < Len(scan.files)
    /\ scan' = [scan EXCEPT !.sent = @ + 1]
    /\ UNCHANGED hold /\ Steady

Take(w) ==
    /\ scan.phase = "extract" /\ hold[w] = 0 /\ scan.taken < scan.sent
    /\ scan' = [scan EXCEPT !.taken = @ + 1]
    /\ hold' = [hold EXCEPT ![w] = scan.taken + 1]
    /\ Steady

\* Mutation: results are appended as they come.
ResultSlot(w) == CHOOSE i \in DOMAIN scan.results :
                    scan.results[i] = None /\ \A j \in DOMAIN scan.results :
                                                 scan.results[j] = None => i <= j

\* Each result goes to the slot of its file.
Slot(w) == hold[w]

Extract(w) ==
    LET f == scan.files[hold[w]] IN
    /\ scan.phase = "extract" /\ hold[w] \notin {0, None}
    /\ scan' = [scan EXCEPT !.results[Slot(w)] =
                   IF cancelled THEN [failed |-> TRUE, file |-> "cancelled"]
                   ELSE [failed |-> f \in gone \cup tree.bad, file |-> f]]
    /\ hold' = [hold EXCEPT ![w] = 0]
    /\ Steady

\* The channel is closed and empty: the worker returns.
Leave(w) ==
    /\ scan.phase = "extract" /\ hold[w] = 0
    /\ scan.sent = Len(scan.files) /\ scan.taken = scan.sent
    /\ hold' = [hold EXCEPT ![w] = None]
    /\ UNCHANGED scan /\ Steady

\* wg.Wait, then the first failure in walk order, or every record in that order.
Collect ==
    LET failed == {i \in DOMAIN scan.results : scan.results[i].failed} IN
    /\ scan.phase = "extract" /\ scan.sent = Len(scan.files)
    /\ \A w \in Workers : hold[w] = None
    /\ IF failed # {}
       THEN Finish("error", scan.results[CHOOSE i \in failed : \A j \in failed : i <= j].file)
       ELSE scan' = [scan EXCEPT !.phase = "done",
                        !.out = [kind |-> "records", why |-> None,
                                 records |-> [i \in DOMAIN scan.results |-> scan.results[i].file]]]
    /\ UNCHANGED hold /\ Steady

\* scanGoverned: again, ungoverned, when nothing under Root resolved a schema.
Retry == scan.phase = "done" /\ scan.out.kind = "noschema" /\ ~scan.resilient /\ BeginScan(FALSE, TRUE)

ScanNext ==
    \/ WalkDir \/ WalkFile \/ EndWalk \/ Send \/ Collect
    \/ \E w \in Workers : Take(w) \/ Extract(w) \/ Leave(w)

(***************************************************************************)
(* The environment.                                                        *)
(***************************************************************************)
Disturb == mishaps < MaxMishaps /\ mishaps' = mishaps + 1

Cancel ==
    /\ Disturb /\ ~cancelled /\ cancelled' = TRUE
    /\ UNCHANGED <<tree, stems, gone, scan, hold, seen>>

Delete(f) ==
    /\ Disturb /\ f \notin gone /\ gone' = gone \cup {f}
    /\ UNCHANGED <<tree, stems, cancelled, scan, hold, seen>>

EditStem(d) ==
    /\ Disturb
    /\ \E s \in StemStates \ {stems[d]} : stems' = [stems EXCEPT ![d] = s]
    /\ seen' = IF scan.phase = "done" THEN seen ELSE seen \cup {stems'}
    /\ UNCHANGED <<tree, gone, cancelled, scan, hold>>

Environment == Cancel \/ (\E f \in Files : Delete(f)) \/ (\E d \in Places : EditStem(d))

(***************************************************************************)
(* What a scan promises.                                                   *)
(***************************************************************************)
\* The documents a scan owes when the .stem files of each directory are as in
\* judged[d]: known, not ignored, and governed or asked for regardless.
Owed(judged) ==
    {f \in Known : /\ ~Ignored(f)
                   /\ CASE Resolve(judged[Dir(f)], Dir(f)) = "none"     -> scan.ungoverned
                        [] Resolve(judged[Dir(f)], Dir(f)) = "broken"   -> scan.resilient
                        [] Resolve(judged[Dir(f)], Dir(f)) = "governed" -> f \notin tree.outOfScope}
InWalkOrder(S) == Kept(Walk, S)

\* Whatever the workers' order: a scan that succeeds returns, in the order of
\* the walk, exactly the documents it owes, judging every directory by one
\* version of its .stem files, also when they change under it; only documents
\* deleted meanwhile may be missing.  One that fails names the first cause in
\* the order of the walk, and a cancelled one never returns part of a tree.
ScanExact ==
    scan.phase = "done" /\ scan.out # Running =>
        \E judged \in [Dirs -> seen] :
            LET owed   == Owed(judged)
                broken == {d \in Dirs : Resolve(judged[d], d) = "broken" /\ ~scan.resilient}
                entry(d) == judged[d][d] # "none" \/ \E f \in Files \ gone : Dir(f) = d /\ ~Ignored(f)
            IN CASE scan.out.kind = "records" ->
                        /\ \A d \in broken : ~entry(d)
                        /\ \E there \in SUBSET gone :
                              scan.out.records = InWalkOrder(owed \cap ((Files \ gone) \cup (there \ tree.absent)))
                 [] scan.out.kind = "noschema" -> ~scan.ungoverned /\ owed \subseteq gone
                 [] scan.out.kind = "error" ->
                        \/ scan.out.why = "cancelled" /\ cancelled
                        \/ scan.out.why \in broken
                        \/ /\ scan.out.why \in owed \cap (gone \cup tree.bad)
                           /\ ~cancelled =>
                              \A f \in owed \cap (tree.bad \ gone) :
                                 LET order == InWalkOrder(owed)
                                     n(g)  == CHOOSE i \in DOMAIN order : order[i] = g
                                 IN  n(scan.out.why) <= n(f)
=============================================================================

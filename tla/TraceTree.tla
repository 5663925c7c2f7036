------------------------------ MODULE TraceTree ------------------------------
(***************************************************************************)
(* The trace tree (tree_compressor.py, eval/api.py get_trace_tree): built  *)
(* from a flat list of spans, its large subtrees replaced by summary       *)
(* nodes, late summaries applied, small groups of leaves folded into their *)
(* parent's events and unfolded again by the viewer.  The parent relation  *)
(* of the stored spans never changes; a tree is which spans are visible    *)
(* nodes, which of them are summaries and what is folded into which.       *)
(***************************************************************************)
EXTENDS Naturals, FiniteSets

CONSTANTS
  TreeSpans,         \* spans are 1 .. TreeSpans, 0 is "no parent in the list"
  MaxSubtreeSize,    \* max_subtree_size
  MaxEmbeddedSize,   \* max_embedded_size
  TreePasses         \* bound: compress() calls

ASSUME TreeAssumption ==
  TreeSpans \in Nat \ {0} /\ MaxSubtreeSize \in Nat \ {0} /\ MaxEmbeddedSize \in Nat \ {0}
  /\ TreePasses \in Nat

VARIABLES
  ttTrace,   \* the stored spans: parent, the ones in error, whether roots are agent.loop spans
  ttTree,    \* root, visible nodes, summaries, what each hides, what is embedded where
  ttPhase    \* built, compressed (n times), summarised, embedded, expanded or refused

treeVars == <<ttTrace, ttTree, ttPhase>>

TtSpans == 1 .. TreeSpans
NoTree == [root |-> 0, nodes |-> {}, summary |-> {}, hides |-> [s \in TtSpans |-> {}],
           count |-> [s \in TtSpans |-> 0], pending |-> {}, events |-> [s \in 0 .. TreeSpans |-> {}]]

TreeInit ==
  /\ ttTrace \in [parent : [TtSpans -> 0 .. TreeSpans], error : SUBSET TtSpans, loop : BOOLEAN]
  /\ ttTree = NoTree
  /\ ttPhase = [at |-> "stored", passes |-> 0]

Candidates == {s \in TtSpans : ttTrace.parent[s] = 0}

\* _mark_reachable(): the spans a walk from parent to child meets, the least set that
\* holds the first ones and the children of its own.
Reachable(first) ==
  {s \in TtSpans : \A C \in SUBSET TtSpans :
     first \subseteq C /\ (\A c \in TtSpans : ttTrace.parent[c] \in C => c \in C) => s \in C}
Cyclic == Reachable(Candidates) # TtSpans
Under(n) == Reachable({n})

(***************************************************************************)
(* TraceTreeBuilder.build(): a span out of reach of the root candidates is *)
(* on a cycle and refused.  One candidate of type agent.loop is the root,  *)
(* else a virtual root (0) holds the candidates.                           *)
(***************************************************************************)
Build ==
  /\ ttPhase.at = "stored"
  /\ IF Cyclic
     THEN ttPhase' = [ttPhase EXCEPT !.at = "refused"] /\ UNCHANGED ttTree
     ELSE /\ ttPhase' = [ttPhase EXCEPT !.at = "built"]
          /\ ttTree' = [NoTree EXCEPT !.nodes = TtSpans,
                          !.root = IF Cardinality(Candidates) = 1 /\ ttTrace.loop
                                   THEN CHOOSE s \in Candidates : TRUE ELSE 0]
  /\ UNCHANGED ttTrace

Kids(t, n) == {s \in t.nodes : ttTrace.parent[s] = n}
Subtree(t, n) == Under(n) \cap t.nodes

\* A plausible slip: only the node's own status protects it.
ProtectedSelf(t, n) == n \in ttTrace.error

(***************************************************************************)
(* compress(): sizes and errors of every subtree; an error below a node    *)
(* (other than the root) protects all that hangs from it; and top down,    *)
(* the first node of a path that is large and protected by nothing becomes *)
(* a summary.  A summary of an earlier pass is a leaf and stays.           *)
(***************************************************************************)
HasError(t, n) == Subtree(t, n) \cap ttTrace.error # {}
Protected(t, n) == \E a \in t.nodes : n \in Under(a) /\ a # t.root /\ HasError(t, a)
ShouldCompress(t, n) ==
  /\ n # t.root /\ n \notin t.summary
  /\ Cardinality(Subtree(t, n)) > MaxSubtreeSize
  /\ ~Protected(t, n)
Replaced(t) == {n \in t.nodes : ShouldCompress(t, n)
                  /\ \A a \in t.nodes : n \in Under(a) /\ a # n => ~ShouldCompress(t, a)}

\* A plausible slip: a summary is awaited for every large node, also inside a summary.
CompressedNested(t) ==
  [t EXCEPT !.nodes = @ \ UNION {Under(n) \ {n} : n \in Replaced(t)},
            !.summary = @ \cup Replaced(t),
            !.pending = @ \cup {n \in t.nodes : ShouldCompress(t, n)}]

Compressed(t) ==
  LET new == Replaced(t) IN
  [t EXCEPT !.nodes = @ \ UNION {Under(n) \ {n} : n \in new},
            !.summary = @ \cup new, !.pending = @ \cup new,
            !.hides = [s \in TtSpans |-> IF s \in new THEN Subtree(t, s) \ {s} ELSE @[s]],
            !.count = [s \in TtSpans |-> IF s \in new THEN Cardinality(Subtree(t, s)) ELSE @[s]]]

Compress ==
  /\ ttPhase.at \in {"built", "compressed"} /\ ttPhase.passes < TreePasses
  /\ ttTree' = Compressed(ttTree)
  /\ ttPhase' = [at |-> "compressed", passes |-> ttPhase.passes + 1]
  /\ UNCHANGED ttTrace

\* apply_late_summaries(): the summaries the store has for some of the nodes.
ApplyLateSummaries(found) ==
  /\ ttPhase.at = "compressed"
  /\ ttTree' = [ttTree EXCEPT !.pending = @ \ found]
  /\ ttPhase' = [ttPhase EXCEPT !.at = "summarised"]
  /\ UNCHANGED ttTrace

\* The visit is top down: a node is embeddable by the children it has before any
\* of them is embedded; the root never is.
Embeddable(t, n) ==
  /\ n # t.root /\ Kids(t, n) # {} /\ Cardinality(Kids(t, n)) <= MaxEmbeddedSize
  /\ \A s \in Kids(t, n) : Kids(t, s) = {}

\* The children become events of the parent: attributes and type, not their events.
Embedded(t) ==
  LET into == {n \in t.nodes : Embeddable(t, n)}
      gone == UNION {Kids(t, n) : n \in into} IN
  [t EXCEPT !.nodes = @ \ gone,
            !.events = [s \in 0 .. TreeSpans |->
                          CASE s \in into /\ s \notin gone -> @[s] \cup Kids(t, s)
                            [] s \in gone -> {}
                            [] OTHER -> @[s]]]
Embed ==
  /\ ttPhase.at = "summarised"
  /\ ttTree' = Embedded(ttTree)
  /\ ttPhase' = [ttPhase EXCEPT !.at = "embedded"]
  /\ UNCHANGED ttTrace

\* expand_embedded(): the viewer rebuilds the children of every node it opens.
ExpandEmbedded ==
  /\ ttPhase.at = "embedded"
  /\ ttTree' = [ttTree EXCEPT !.nodes = @ \cup UNION {ttTree.events[s] : s \in ttTree.nodes},
                              !.events = [s \in 0 .. TreeSpans |-> {}]]
  /\ ttPhase' = [ttPhase EXCEPT !.at = "expanded"]
  /\ UNCHANGED ttTrace

TreeNext ==
  \/ Build
  \/ Compress
  \/ \E found \in SUBSET ttTree.summary : ApplyLateSummaries(found)
  \/ Embed
  \/ ExpandEmbedded

TreeSpec == TreeInit /\ [][TreeNext]_treeVars
-----------------------------------------------------------------------------
TreeTypeOK ==
  /\ ttTree.root \in 0 .. TreeSpans /\ ttTree.nodes \subseteq TtSpans
  /\ ttTree.pending \subseteq ttTree.summary
  /\ ttPhase.at \in {"stored", "refused", "built", "compressed", "summarised", "embedded", "expanded"}

(***************************************************************************)
(* Every stored span is in the tree exactly once: a visible node, hidden   *)
(* in one summary, or an event of one visible node; a summary counts the   *)
(* spans it stands for, and a node's parent is a visible node or the root  *)
(* (build, compress, embed, expand_embedded).                              *)
(***************************************************************************)
SpansConserved ==
  ttPhase.at \notin {"stored", "refused"} =>
    /\ \A s \in TtSpans :
         Cardinality({n \in TtSpans : s \in ttTree.hides[n]})
           + Cardinality({n \in 0 .. TreeSpans : s \in ttTree.events[n]})
           + (IF s \in ttTree.nodes THEN 1 ELSE 0) = 1
    /\ \A n \in ttTree.summary : ttTree.count[n] = Cardinality(ttTree.hides[n]) + 1
    /\ \A n \in ttTree.nodes : ttTrace.parent[n] \in ttTree.nodes \cup {0}
    /\ \A n \in TtSpans : ttTree.events[n] # {} => n \in ttTree.nodes

(***************************************************************************)
(* No span in error, and none above or below it short of the root, is ever *)
(* hidden in a summary ("errors never compressed"); after a pass no other  *)
(* subtree is larger than the threshold, so a second pass changes nothing. *)
(***************************************************************************)
ErrorsVisible ==
  ttPhase.at \notin {"stored", "refused"} =>
    /\ \A n \in ttTree.summary : (ttTree.hides[n] \cup {n}) \cap ttTrace.error = {}
    /\ ttPhase.at = "compressed" =>
         /\ Compressed(ttTree) = ttTree
         /\ \A n \in ttTree.nodes \ {ttTree.root} :
              Cardinality(Subtree(ttTree, n)) > MaxSubtreeSize => Protected(ttTree, n)

\* Refuted: embedding twice is embedding once (the docstring of
\* EmbeddedSubtreePolicy.embed).  A parent that became a leaf is folded in turn.
EmbedIdempotent == ttPhase.at = "embedded" => Embedded(ttTree) = ttTree

\* The tree shown to a reader: every stored span is a visible node, hidden in one summary
\* or an event of one visible node; no span in error is hidden in a summary
\* (tree_compressor.py build, compress, embed, expand_embedded).
TreeFaithful == SpansConserved /\ ErrorsVisible
=============================================================================

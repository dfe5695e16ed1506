---------------------------- MODULE AhoCorasick ----------------------------
(***************************************************************************)
(* Aho-Corasick automata: their construction from words and patterns       *)
(* (automata/aho_corasick.cpp), the translation of their non-advancing     *)
(* edges (automata/translate_nonadvancing.cpp) and their execution         *)
(* (automata/eudoxus_subengine.c).                                         *)
(*                                                                         *)
(* A pattern is a sequence of sets of bytes.  The automaton begins as a    *)
(* tree whose edges carry sets of bytes, the sets of a node's edges being  *)
(* disjoint; a node is named by the labels on the way to it.  Where a new  *)
(* pattern, or a failure transition, covers a part of a label only, the    *)
(* edge is split and the tree below it copied.  The order of a node's      *)
(* edges has no influence, and they are a set here.                        *)
(***************************************************************************)
EXTENDS Integers, Sequences, FiniteSets, FiniteSetsExt, SequencesExt

CONSTANTS
    Bytes,     \* the values of a byte
    Words,     \* the words that may be added, sequences of bytes
    Patterns,  \* the patterns that may be added, sequences of sets of bytes
    MaxAdds    \* bound on the words and patterns added

ASSUME AhoCorasickAssumption ==
    /\ Bytes \subseteq Nat /\ Bytes # {}
    /\ \A w \in Words : w # <<>> /\ w \in Seq(Bytes)
    /\ \A p \in Patterns : p # <<>> /\ p \in Seq(SUBSET Bytes)
    /\ MaxAdds \in Nat

VARIABLES
    phase,    \* "add", "pattern", "failures", "translate", "structural", "run"
    added,    \* the patterns added so far; the data of the k-th is k
    outputs,  \* the outputs of every node; the nodes are its domain
    current,  \* current_nodes of aho_corasick_add_pattern
    todo,     \* the nodes that process_failures has still to visit
    dflt,     \* the default targets that are set
    goto,     \* the finished automaton: where each node goes for each byte
    node,     \* the execution's node
    input,    \* the byte at input_location, if any, as a sequence
    text,     \* the bytes before input_location, as many as patterns have
    emitted   \* the data given to the callback after the last of them

construction == <<added, outputs, current, todo, dflt>>
execution    == <<node, input, text, emitted>>
vars == <<phase, construction, goto, execution>>

Start == <<>>

\* The length of the longest pattern, and the bytes of the text that matter.
Longest == Max({Len(p) : p \in Words \cup Patterns})

Nodes     == DOMAIN outputs
Edges(n)  == {m \in Nodes : Len(m) = Len(n) + 1 /\ Front(m) = n}
For(n, c) == {m \in Edges(n) : c \in Last(m)}

Init ==
    /\ phase = "add"
    /\ added = <<>>
    /\ outputs = [n \in {Start} |-> <<>>]
    /\ current = {} /\ todo = {} /\ dflt = <<>>
    /\ goto = <<>>
    /\ node = Start /\ input = <<>> /\ text = <<>> /\ emitted = <<>>
-----------------------------------------------------------------------------
(* split_edge and deep_copy, for all the edges below the nodes ns at once. *)
(* parts[n, cs] are the labels that take the place of cs at n; the tree    *)
(* below is copied for each.                                               *)
SplitEdges(ns, parts) ==
    LET at(m)     == {i \in DOMAIN m : SubSeq(m, 1, i - 1) \in ns}
        images(m) ==
            IF at(m) = {} THEN {m}
            ELSE LET i == Max(at(m))
                 IN  {ReplaceAt(m, i, cs) : cs \in parts[SubSeq(m, 1, i - 1), m[i]]}
    IN  [k \in UNION {images(m) : m \in Nodes} |->
            outputs[CHOOSE m \in Nodes : k \in images(m)]]

\* The nodes on the way to n.
Above(n) == {SubSeq(n, 1, i) : i \in 0..Len(n)}

(* aho_corasick_add_data: find_next as long as there are edges, then new   *)
(* ones.  Words are to be added before patterns: every label is one byte.  *)
AddWord ==
    /\ phase = "add"
    /\ Len(added) < MaxAdds
    /\ \A m \in Nodes \ {Start} : Cardinality(Last(m)) = 1
    /\ \E w \in Words :
          LET n == [i \in DOMAIN w |-> {w[i]}]
          IN  /\ added' = Append(added, n)
              /\ outputs' = [m \in Nodes \cup Above(n) |->
                     (IF m = n THEN <<Len(added) + 1>> ELSE <<>>)
                         \o (IF m \in Nodes THEN outputs[m] ELSE <<>>)]
    /\ UNCHANGED <<phase, current, todo, dflt, goto, execution>>

\* aho_corasick_add_pattern is called.
BeginPattern ==
    /\ phase = "add"
    /\ Len(added) < MaxAdds
    /\ \E p \in Patterns : added' = Append(added, p)
    /\ phase' = "pattern"
    /\ current' = {Start}
    /\ UNCHANGED <<outputs, todo, dflt, goto, execution>>

(* One round of its loop, for the next set of bytes.  What the edges of a  *)
(* current node share with it is split off and followed; a new edge takes  *)
(* the rest.  The last round prepends the output.                          *)
AddLevel ==
    LET p       == Last(added)
        i       == Len(CHOOSE n \in current : TRUE) + 1
        cs      == p[i]
        parts   == [n \in current, l \in SUBSET Bytes |-> {l \cap cs, l \ cs} \ {{}}]
        split   == SplitEdges(current, parts)
        rest(n) == cs \ UNION {Last(m) : m \in Edges(n)}
        new     == {Append(n, rest(n)) : n \in {m \in current : rest(m) # {}}}
        all     == DOMAIN split \cup new
        next    == {m \in all : Len(m) = i /\ Front(m) \in current /\ Last(m) \subseteq cs}
        end     == i = Len(p)
    IN  /\ phase = "pattern"
        /\ outputs' = [m \in all |->
               (IF end /\ m \in next THEN <<Len(added)>> ELSE <<>>)
                   \o (IF m \in DOMAIN split THEN split[m] ELSE <<>>)]
        /\ IF end \/ next = {} THEN phase' = "add" /\ current' = {}
           ELSE phase' = phase /\ current' = next
        /\ UNCHANGED <<added, todo, dflt, goto, execution>>
-----------------------------------------------------------------------------
(* aho_corasick_finish, and the beginning of process_failures.             *)
Finish ==
    /\ phase = "add"
    /\ phase' = "failures"
    /\ todo' = Edges(Start)
    /\ dflt' = [n \in Edges(Start) |-> Start]
    /\ UNCHANGED <<added, outputs, current, goto, execution>>

\* Mutant: only the first default target is looked at.
FailTarget_Once(r, c) ==
    IF For(dflt[r], c) # {} THEN CHOOSE t \in For(dflt[r], c) : TRUE ELSE Start

(* Where byte c leads from the nearest of r's default target, its default  *)
(* target and so on which has an edge for it, or the start node.           *)
FailTarget(r, c) ==
    LET target[n \in Nodes] ==
            IF For(n, c) # {} THEN CHOOSE t \in For(n, c) : TRUE
            ELSE IF n = Start THEN Start
            ELSE target[dflt[n]]
    IN  target[dflt[r]]

(* process_failures visits r, breadth first.  An edge is split until all   *)
(* its bytes have the same target; the nodes get it as default target, and *)
(* its outputs as it has them then (set_default_target).                   *)
ProcessNode ==
    LET r     == CHOOSE n \in todo : \A m \in todo : Len(n) <= Len(m)
        parts == [n \in {r}, l \in SUBSET Bytes |->
            {{c \in l : FailTarget(n, c) = t} : t \in {FailTarget(n, c) : c \in l}}]
        split == SplitEdges({r}, parts)
        ss    == {m \in DOMAIN split : Len(m) = Len(r) + 1 /\ Front(m) = r}
        target(s) == FailTarget(r, CHOOSE c \in Last(s) : TRUE)
    IN  /\ phase = "failures" /\ todo # {}
        /\ outputs' = [m \in DOMAIN split |->
                           split[m] \o (IF m \in ss THEN outputs[target(m)] ELSE <<>>)]
        /\ dflt' = [m \in DOMAIN dflt \cup ss |-> IF m \in ss THEN target(m) ELSE dflt[m]]
        /\ todo' = (todo \ {r}) \cup ss
        /\ UNCHANGED <<phase, added, current, goto, execution>>

(* Node::targets_for of the finished automaton.  optimize_edges groups the *)
(* edges anew, which leaves the targets.  Then the automaton is used as it *)
(* is, or translated by one of the options of optimize.                    *)
Optimize ==
    /\ phase = "failures" /\ todo = {}
    /\ goto' = [n \in Nodes |-> [c \in Bytes |->
          IF For(n, c) # {} THEN [to |-> CHOOSE t \in For(n, c) : TRUE, advance |-> TRUE]
          ELSE IF n = Start THEN [to |-> Start, advance |-> TRUE]
          ELSE [to |-> dflt[n], advance |-> FALSE]]]
    /\ phase' \in {"run", "translate", "structural"}
    /\ UNCHANGED <<construction, execution>>
-----------------------------------------------------------------------------
(* translate_nonadvancing for one node of automaton g: a non-advancing     *)
(* edge is replaced by what its target does with the same byte.            *)
Translated(g, n) ==
    [c \in Bytes |-> IF g[n][c].advance THEN g[n][c] ELSE g[g[n][c].to][c]]

(* translate_nonadvancing_structural: only if all the bytes of the edge    *)
(* (there is one that does not advance, the default) have one target next. *)
TranslatedStructural(g, n) ==
    LET cs    == {c \in Bytes : ~g[n][c].advance}
        nexts == {g[g[n][c].to][c].to : c \in cs}
    IN  IF Cardinality(nexts) # 1 THEN g[n]
        ELSE [c \in Bytes |-> IF c \in cs THEN g[g[n][Min(cs)].to][Min(cs)] ELSE g[n][c]]

(* One round of either over the nodes, breadth first.  (Non-advancing      *)
(* edges lead to nodes that are less deep.)                                *)
Translate ==
    LET visit(g, depth) ==
            [n \in Nodes |-> IF Len(n) # depth THEN g[n]
                             ELSE IF phase = "translate" THEN Translated(g, n)
                             ELSE TranslatedStructural(g, n)]
    IN  /\ phase \in {"translate", "structural"}
        /\ goto' = FoldLeft(visit, goto, [i \in 1..Longest |-> i])
        /\ phase' = IF goto' = goto THEN "run" ELSE phase
        /\ UNCHANGED <<construction, execution>>
-----------------------------------------------------------------------------
(* The input goes on with byte c.                                          *)
Input ==
    /\ phase = "run" /\ input = <<>>
    /\ \E c \in Bytes : input' = <<c>>
    /\ UNCHANGED <<phase, construction, goto, node, text, emitted>>

(* next and output, in the loop of execute: a node that is reached without *)
(* an advance has no output.  The callback says IA_EUDOXUS_CMD_CONTINUE;   *)
(* one that stops or fails ends execute, and the resumption after it, with *)
(* NULL for the input, is left out.                                        *)
Execute ==
    LET to == goto[node][input[1]]
    IN  /\ phase = "run" /\ input # <<>>
        /\ node' = to.to
        /\ IF to.advance
           THEN /\ input' = <<>>
                /\ text' = (IF Len(text) = Longest THEN Tail(text) ELSE text) \o input
                /\ emitted' = outputs[to.to]
           ELSE UNCHANGED <<input, text, emitted>>
        /\ UNCHANGED <<phase, construction, goto>>

Next ==
    \/ AddWord \/ BeginPattern \/ AddLevel
    \/ Finish \/ ProcessNode \/ Optimize \/ Translate
    \/ Input \/ Execute

Spec == Init /\ [][Next]_vars
-----------------------------------------------------------------------------
\* The last bytes of the text are one of the words that p stands for.
Matches(p) ==
    /\ Len(p) <= Len(text)
    /\ \A i \in DOMAIN p : text[Len(text) - Len(p) + i] \in p[i]

(* What an Aho-Corasick automaton promises, whatever was split, copied and *)
(* translated: after every byte it has given the callback the data of each *)
(* word and pattern that ends there, once, and of no other.  On the way no *)
(* node has two edges for a byte (the logic_error of find_next), and       *)
(* process_failures meets no node that has a default target (its assert).  *)
FindsExactly ==
    /\ phase # "run" => \A n \in Nodes, c \in Bytes : Cardinality(For(n, c)) <= 1
    /\ phase = "failures" =>
          \A n \in todo : Edges(n) \cap DOMAIN dflt = {}
    /\ phase = "run" /\ input = <<>> =>
          /\ ToSet(emitted) = {k \in DOMAIN added : Matches(added[k])}
          /\ IsInjective(emitted)
=============================================================================

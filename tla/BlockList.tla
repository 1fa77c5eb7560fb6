------------------------------ MODULE BlockList ------------------------------
(***************************************************************************)
(* The block list of the moderation service: the words are loaded from the *)
(* configuration and from a file, normalised, and put into an Aho-Corasick *)
(* automaton; a text is normalised the same way and run through it.        *)
(*                                                                         *)
(* A string is a sequence of characters.  A node of the trie is the string *)
(* that leads to it, the root <<>>; a node without output has output <<>>, *)
(* as "" in the code.  The children of a node are a Go map, whose order of *)
(* iteration is open.                                                      *)
(***************************************************************************)
EXTENDS Integers, Sequences, FiniteSets, SequencesExt

CONSTANTS
    Char,          \* the characters
    ConfigLists,   \* the values blocklistWords may have: sets of strings
    FileLists      \* the lines the scanner may read of the file: none when it
                   \* cannot be opened, the first ones when reading it fails

\* What normalisation turns a character into is a character.
ASSUME CharAssumption == {"a", "b", "A", "B", "aAcute", "AAcute"} \subseteq Char

ASSUME ListAssumption ==
    \A list \in ConfigLists \cup FileLists : IsFiniteSet(list) /\ list \subseteq Seq(Char)

VARIABLES
    listed,     \* the raw words and lines the list was loaded from
    nodes,      \* the nodes of the trie
    fail,       \* the fail pointers set so far
    output,     \* the word a node reports, <<>> without one
    queue       \* the queue of buildACA; it is empty once that has returned

blockVars == <<listed, nodes, fail, output, queue>>

Root == <<>>

-----------------------------------------------------------------------------
(* Normalisation.  The characters told apart are letters with their         *)
(* upper-case, full-width and accented forms, a ligature, a combining       *)
(* accent, zero-width characters, space, and the sign of a comment line.    *)

Compatible == [wideA |-> <<"A">>, wideB |-> <<"B">>, abLigature |-> <<"a", "b">>]
Accented   == [a |-> "aAcute", A |-> "AAcute"]
Upper      == [A |-> "a", B |-> "b", AAcute |-> "aAcute"]
Acute      == "acute"
Space      == " "
ZeroWidth  == "zw"
Comment    == "#"

\* The next character of a string in normal form: an accent is composed with
\* the letter right before it; another character is put in the form it is
\* compatible with, which may be several characters.
Compose(t, c) ==
    IF c = Acute /\ t # <<>> /\ Last(t) \in DOMAIN Accented
    THEN Append(Front(t), Accented[Last(t)])
    ELSE t \o IF c \in DOMAIN Compatible THEN Compatible[c] ELSE <<c>>

NFKC(s) ==
    LET normal[i \in 0..Len(s)] == IF i = 0 THEN <<>> ELSE Compose(normal[i - 1], s[i])
    IN  normal[Len(s)]

ToLower(c) == IF c \in DOMAIN Upper THEN Upper[c] ELSE c

\* The part between the first and the last character that is no space.
TrimSpace(s) ==
    LET solid == {i \in DOMAIN s : s[i] # Space} IN
    IF solid = {} THEN <<>>
    ELSE SubSeq(s, CHOOSE i \in solid : \A j \in solid : i <= j,
                   CHOOSE i \in solid : \A j \in solid : j <= i)

\* One pass over the string that leaves the zero-width characters out.
StripZeroWidth(s) ==
    LET kept[i \in 0..Len(s)] ==
            IF i = 0 THEN <<>>
            ELSE IF s[i] = ZeroWidth THEN kept[i - 1] ELSE Append(kept[i - 1], s[i])
    IN  kept[Len(s)]

\* A zero-width character is dropped after the composition, so it has kept an
\* accent apart from the letter that then stands right before it.
Folded(s) ==
    LET kept == StripZeroWidth(NFKC(s))
    IN  [i \in DOMAIN kept |-> ToLower(kept[i])]

normalizeContent(s) == TrimSpace(Folded(s))

-----------------------------------------------------------------------------
(* Loading.                                                                *)

\* A line that begins with # or //, of which # stands for both.
IsComment(line) == TrimSpace(line) # <<>> /\ TrimSpace(line)[1] = Comment

\* The words of the configuration, and the lines read of the file that are no
\* comments.
RawWords(config, lines) == config \cup {l \in lines : ~IsComment(l)}

loadBlocklist(config, lines) ==
    {normalizeContent(w) : w \in RawWords(config, lines)} \ {<<>>}

-----------------------------------------------------------------------------
(* Building the automaton.                                                 *)

\* The loop over the words makes the trie, the loop over the children of the
\* root queues them in some order.
BlockInit ==
    \E config \in ConfigLists, lines \in FileLists :
        LET words == loadBlocklist(config, lines) IN
        /\ listed = [config |-> config, lines |-> lines]
        /\ nodes = {Root} \cup UNION {{SubSeq(w, 1, n) : n \in 1..Len(w)} : w \in words}
        /\ output = [n \in nodes |-> IF n \in words THEN n ELSE <<>>]
        /\ fail = [n \in {m \in nodes : Len(m) = 1} |-> Root]
        /\ queue \in SetToSeqs(DOMAIN fail)

Built == queue = <<>>

\* The child for r of the first node on the fail chain from node that has one.
Follow(node, r) ==
    LET chain[n \in DOMAIN fail \cup {Root}] ==
            IF Append(n, r) \in nodes THEN Append(n, r)
            ELSE IF n = Root THEN Root ELSE chain[fail[n]]
    IN  chain[node]

\* The children of a node that have no fail pointer yet.
Unlinked(parent) == {n \in nodes \ {Root} : Front(n) = parent /\ n \notin DOMAIN fail}

\* Mutant: the word that ends at the fail node is not taken over.
LinkChildWithoutOutput(child) ==
    LET target == Follow(fail[Front(child)], Last(child)) IN
    /\ fail' = [n \in DOMAIN fail \cup {child} |-> IF n = child THEN target ELSE fail[n]]
    /\ queue' = Append(queue, child)
    /\ UNCHANGED <<listed, nodes, output>>

\* A child gets its fail pointer from the chain of its parent, and the output
\* of the node it points to when it has none of its own.
LinkChild(child) ==
    LET target == Follow(fail[Front(child)], Last(child)) IN
    /\ fail' = [n \in DOMAIN fail \cup {child} |-> IF n = child THEN target ELSE fail[n]]
    /\ output' = IF output[target] # <<>> /\ output[child] = <<>>
                 THEN [output EXCEPT ![child] = output[target]] ELSE output
    /\ queue' = Append(queue, child)
    /\ UNCHANGED <<listed, nodes>>

NextParent ==
    /\ queue' = Tail(queue)
    /\ UNCHANGED <<listed, nodes, fail, output>>

\* The node at the head of the queue links its children, in any order.
buildACA ==
    /\ ~Built
    /\ \/ \E child \in Unlinked(Head(queue)) : LinkChild(child)
       \/ Unlinked(Head(queue)) = {} /\ NextParent

-----------------------------------------------------------------------------
(* Matching.                                                               *)

\* The text is read up to the first node with an output.
Match(content) ==
    LET at[i \in 0..Len(content)] ==
            IF i = 0 THEN Root
            ELSE LET state == at[i - 1]
                 IN  IF output[state] # <<>> THEN state ELSE Follow(state, content[i])
    IN  output[at[Len(content)]]

\* The word found, <<>> without one.
CheckContent(content) == Match(normalizeContent(content))

-----------------------------------------------------------------------------
(* What a match is meant to be.                                            *)

Occurs(word, text) ==
    \E i \in 0..Len(text) - Len(word) : SubSeq(text, i + 1, i + Len(word)) = word

\* The words of the list that stand in a text, both as the program folds them.
Hits(text) ==
    {w \in {TrimSpace(Folded(r)) : r \in RawWords(listed.config, listed.lines)} \ {<<>>} :
        Occurs(w, Folded(text))}

-----------------------------------------------------------------------------
(* Why the automaton finds them.                                           *)

Words == loadBlocklist(listed.config, listed.lines)

\* The first k characters of a text end in s.
EndsAt(text, k, s) ==
    Len(s) <= k /\ \A i \in 1..Len(s) : s[i] = text[k - Len(s) + i]

EndsIn(text, s) == EndsAt(text, Len(text), s)

\* The longest node that the first k characters end in: what the automaton is
\* at once it has read them.
LongestAt(text, k, n) ==
    /\ n \in nodes /\ EndsAt(text, k, n)
    /\ \A m \in nodes : EndsAt(text, k, m) => Len(m) <= Len(n)

\* The trie holds the words and the beginnings of what it holds.
TrieInv ==
    /\ nodes \subseteq Seq(Char) /\ Root \in nodes
    /\ \A n \in nodes : \A k \in 1..Len(n) : SubSeq(n, 1, k) \in nodes
    /\ Words \subseteq nodes \ {Root}

\* A fail pointer leads to the longest node that its node ends in and that is
\* shorter than it, and that one has its own.
LinkInv ==
    /\ DOMAIN fail \subseteq nodes \ {Root}
    /\ \A n \in nodes : Len(n) = 1 => n \in DOMAIN fail
    /\ \A n \in DOMAIN fail :
        /\ fail[n] \in DOMAIN fail \cup {Root}
        /\ EndsIn(n, fail[n]) /\ Len(fail[n]) < Len(n)
        /\ \A m \in nodes : EndsIn(n, m) /\ Len(m) < Len(n) => Len(m) <= Len(fail[n])

\* A node reports a word that it ends in; once linked, it reports one if it
\* ends in any.
OutputInv ==
    /\ DOMAIN output = nodes
    /\ \A n \in nodes : output[n] # <<>> => output[n] \in Words /\ EndsIn(n, output[n])
    /\ \A n \in DOMAIN fail, w \in Words : EndsIn(n, w) => output[n] # <<>>
    /\ \A n \in nodes \ DOMAIN fail : output[n] = IF n \in Words THEN n ELSE <<>>

\* The queue goes through the trie level by level, and a linked node that has
\* left it has left no child behind.
QueueInv ==
    /\ queue \in Seq(DOMAIN fail)
    /\ \A i, j \in 1..Len(queue) : i <= j => Len(queue[i]) <= Len(queue[j])
    /\ \A i \in 1..Len(queue) : Len(queue[i]) <= Len(queue[1]) + 1
    /\ \A n \in DOMAIN fail :
        (\A i \in 1..Len(queue) : queue[i] # n) => Unlinked(n) = {}

BlockInv == TrieInv /\ LinkInv /\ OutputInv /\ QueueInv

=============================================================================

--------------------------- MODULE MCAhoCorasick ---------------------------
EXTENDS AhoCorasick, TLC

UpTo(n, S) == UNION {[1..k -> S] : k \in 1..n}

\* Labels that contain each other, overlap or do neither; a union may be empty.
Labels     == {{1}, {1, 2}, {2, 3}}
MCPatterns == UpTo(2, Labels) \cup {p \in [1..3 -> Labels] : p[1] # {1}}
                              \cup {<<{1}, {}, {2}>>}
MCWords    == UpTo(2, {1, 2}) \cup {<<1, 1, 2>>, <<1, 2, 1>>, <<2, 1, 1>>}
=============================================================================

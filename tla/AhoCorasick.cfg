SPECIFICATION Spec
CONSTANTS
    Bytes = {1, 2, 3}
    Words <- MCWords
    Patterns <- MCPatterns
    MaxAdds = 2
INVARIANT FindsExactly

SPECIFICATION Spec
INVARIANT TestsAreCorrect

SPECIFICATION Spec
CONSTANTS MaxRuns <- MCMaxRuns
INVARIANT WrittenValid
INVARIANT TypesAgree
PROPERTY RewriteKeeps
PROPERTY RewriteAdds
CHECK_DEADLOCK FALSE

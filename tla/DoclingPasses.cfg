CONSTANTS
  Docs <- Papers
  Preamble = Preamble
  Supplement = Supplement
SPECIFICATION Spec
INVARIANTS SectionsResolve EquationsEndParagraphs PassedIsComplete

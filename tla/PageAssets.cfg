CONSTANTS
  Key = {a, b, c}
  Needs <- OrderedLists
  NoAsset = NoAsset
  Blank = Blank
  Page = Page
  MaxDepth = 3
SPECIFICATION Spec
INVARIANTS OnceEach RequiresFirst NothingAfterHead NoRunaway
PROPERTIES AddEnds

SPECIFICATION StoreSpec
CONSTANTS
    Trees <- SmallTrees
    Includes <- SmallIncludes
INVARIANT AcceptedIsComplete

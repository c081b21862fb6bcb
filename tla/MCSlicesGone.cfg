CONSTANTS
    Ids = {1, 2}
    Contents <- MCContents
    Calls = {c1, c2}
SYMMETRY Symmetry
SPECIFICATION SlicesSpec
INVARIANT CallbackFindsViewer

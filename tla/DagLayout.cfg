\* Every graph of four nodes and at most four edges, acyclic or not.
SPECIFICATION DagSpec
CONSTANTS
    Labels = {"A", "B", "C", "D"}
    Shapes = {"none", "circle", "point"}
    NodeIds = {1, 2, 3, 4}
    MaxEdges = 4
    DotFiles <- SmallDotFiles
INVARIANTS
    DagTypeOK
    EdgesAreDependencies
    StableOrder
    LayersFollowEdges
PROPERTY
    ImplementsTopologicalSort

SPECIFICATION Spec
CONSTANTS
    none = none  f32 = f32  f64 = f64  eager = eager
    Kinds = {f32, f64, eager}
    Shapeless = {f32, f64}
    Unsupported = none
    Mixed = {TRUE, FALSE}
    Cases <- AllCases
    AnchorSets <- Attentions
INVARIANTS
    TypeOK
    ClustersCover
    Schedulable
    GroupsConvex
    RegionsWhole
    LayersApart
